---- MODULE Spec2Model ----
(***************************************************************************)
(* A model of the configuration manager of src/config/config_manager.py:   *)
(* the layered load (defaults, base file, environment file, environment    *)
(* variables, validation), the process-wide instance, update_config and    *)
(* save_config.                                                            *)
(***************************************************************************)
EXTENDS Integers, Sequences, FiniteSets, TLC

(***************************************************************************)
(* Python values.  Every value is a record of the same shape, so that any  *)
(* two values can be compared: t is the Python type, n the number (the     *)
(* length, for a list or a dict) and s the text (a label of the contents,  *)
(* for a list or a dict).                                                  *)
(***************************************************************************)
VInt(n) == [t |-> "int", n |-> n, s |-> ""]

VFloat(n) == [t |-> "float", n |-> n, s |-> ""]

VBool(b) == [t |-> "bool", n |-> IF b THEN 1 ELSE 0, s |-> ""]

VStr(s) == [t |-> "str", n |-> 0, s |-> s]

VNone == [t |-> "none", n |-> 0, s |-> ""]

VList(n, s) == [t |-> "list", n |-> n, s |-> s]

VDict(n, s) == [t |-> "dict", n |-> n, s |-> s]

VTuple(n, s) == [t |-> "tuple", n |-> n, s |-> s]

\* bool(v): Python's truth value of v.
Truthy(v) ==
    CASE v.t = "str" -> v.s # ""
      [] v.t \in {"int", "float", "bool"} -> v.n # 0
      [] v.t \in {"list", "dict", "tuple"} -> v.n > 0
      [] OTHER -> FALSE

\* Whether v <= 0 and the like are defined: comparing a str, None, a list or
\* a dict with an int raises TypeError.
Numeric(v) == v.t \in {"int", "float", "bool"}

(***************************************************************************)
(* Exceptions: the Python type, what it reports, and (for the validation   *)
(* error) one line per violated check.                                     *)
(***************************************************************************)
NoExc == [type |-> "none", msg |-> "", lines |-> <<>>]

Exc(type, msg) == [type |-> type, msg |-> msg, lines |-> <<>>]

(***************************************************************************)
(* The dataclasses and their defaults.  A section object is a function     *)
(* from attribute names to values.                                         *)
(***************************************************************************)
DatabaseConfig ==
    [type |-> VStr("sqlite"), host |-> VStr("localhost"), port |-> VInt(5432),
     database |-> VStr("test_db"), username |-> VStr(""), password |-> VStr(""),
     connection_pool_size |-> VInt(10), timeout |-> VInt(30)]

\* APIConfig with a default that fails its own check.
APIConfigZeroTimeout ==
    [base_url |-> VStr("https://httpbin.org"), timeout |-> VInt(0),
     max_retries |-> VInt(3), retry_delay |-> VFloat(1),
     verify_ssl |-> VBool(TRUE), headers |-> VDict(0, "{}")]

APIConfig ==
    [base_url |-> VStr("https://httpbin.org"), timeout |-> VInt(30),
     max_retries |-> VInt(3), retry_delay |-> VFloat(1),
     verify_ssl |-> VBool(TRUE), headers |-> VDict(0, "{}")]

BrowserConfig ==
    [headless |-> VBool(TRUE), timeout |-> VInt(30000),
     viewport_width |-> VInt(1920), viewport_height |-> VInt(1080),
     browser_type |-> VStr("chromium"), slow_mo |-> VInt(0),
     devtools |-> VBool(FALSE),
     args |-> VList(4, "--no-sandbox --disable-dev-shm-usage --disable-gpu --disable-web-security")]

ReportConfig ==
    [allure_results_dir |-> VStr("results/allure-results"),
     html_report_path |-> VStr("results/report.html"),
     screenshot_dir |-> VStr("screenshots"), video_dir |-> VStr("videos"),
     generate_allure |-> VBool(TRUE), generate_html |-> VBool(TRUE),
     capture_screenshots |-> VBool(TRUE), capture_videos |-> VBool(FALSE)]

PerformanceConfig ==
    [default_concurrent_users |-> VInt(10), default_requests_per_user |-> VInt(10),
     max_response_time_ms |-> VFloat(5000), min_success_rate |-> VFloat(95),
     ramp_up_time |-> VInt(0), results_dir |-> VStr("performance_results")]

EmptyDict == [k \in {} |-> VNone]

TestConfig ==
    [environment |-> "test", database |-> DatabaseConfig, api |-> APIConfig,
     browser |-> BrowserConfig, report |-> ReportConfig,
     performance |-> PerformanceConfig, custom |-> EmptyDict]

\* The five sections that are dataclass objects, in the order _merge_config
\* and update_config go through them.
FixedSections == <<"database", "api", "browser", "report", "performance">>

FixedSectionSet == {FixedSections[i] : i \in 1..Len(FixedSections)}

\* The declared fields of a section's dataclass.
DeclaredFields(section) == DOMAIN TestConfig[section]

(***************************************************************************)
(* hasattr and setattr on a section object.  Besides its declared fields a *)
(* dataclass instance has the attributes of every Python object; __doc__   *)
(* (which setattr sets on the instance) and __class__ (which setattr       *)
(* refuses unless the value is a class) stand for them here.               *)
(***************************************************************************)
ObjectAttrs == {"__doc__", "__class__"}

HasAttr(obj, key) == key \in DOMAIN obj \/ key \in ObjectAttrs

SetAttr(obj, key, value) ==
    IF key = "__class__"
    THEN [obj |-> obj, exc |-> Exc("TypeError", "__class__ must be set to a class")]
    ELSE [obj |-> [k \in DOMAIN obj \cup {key} |-> IF k = key THEN value ELSE obj[k]],
          exc |-> NoExc]

(***************************************************************************)
(* Parsed documents.  What json.load / yaml.safe_load return: top is the   *)
(* Python type of the root ("dict", "none" for null or an empty file,     *)
(* "list" for a non-empty list, "int" for a non-zero number); for a dict,  *)
(* secs maps each top-level key to its value: shape "dict" with the items  *)
(* in file order, or another shape (a list, a string, null) with none.     *)
(***************************************************************************)
Doc(secs) == [top |-> "dict", secs |-> secs]

NonDictDoc(top) == [top |-> top, secs |-> [k \in {} |-> 0]]

SecDict(items) == [shape |-> "dict", items |-> items]

SecOther == [shape |-> "list", items |-> <<>>]

\* A list of key-value pairs followed by an element that is no pair.
SecPairsThenOther(items) == [shape |-> "list", items |-> items]

Item(k, v) == [k |-> k, v |-> v]

EmptyDoc == Doc([k \in {} |-> SecOther])

\* bool(config_data)
DocTruthy(data) ==
    CASE data.top = "dict" -> DOMAIN data.secs # {}
      [] data.top = "none" -> FALSE
      [] OTHER -> TRUE

(***************************************************************************)
(* Paths and files.  A path is its directory, the file name without the    *)
(* suffix, and the suffix.  A file's content is what reading it gives: it  *)
(* cannot be opened, it does not parse, or it parses to a document.        *)
(***************************************************************************)
Path(dir, name, suffix) == [dir |-> dir, name |-> name, suffix |-> suffix]

Unreadable == [kind |-> "unreadable", data |-> EmptyDoc]

Unparseable == [kind |-> "unparseable", data |-> EmptyDoc]

Parsed(data) == [kind |-> "parsed", data |-> data]

\* str.lower(), on the ASCII letters.
LowerChar(c) ==
    CASE c = "A" -> "a" [] c = "B" -> "b" [] c = "C" -> "c" [] c = "D" -> "d"
      [] c = "E" -> "e" [] c = "F" -> "f" [] c = "G" -> "g" [] c = "H" -> "h"
      [] c = "I" -> "i" [] c = "J" -> "j" [] c = "K" -> "k" [] c = "L" -> "l"
      [] c = "M" -> "m" [] c = "N" -> "n" [] c = "O" -> "o" [] c = "P" -> "p"
      [] c = "Q" -> "q" [] c = "R" -> "r" [] c = "S" -> "s" [] c = "T" -> "t"
      [] c = "U" -> "u" [] c = "V" -> "v" [] c = "W" -> "w" [] c = "X" -> "x"
      [] c = "Y" -> "y" [] c = "Z" -> "z" [] OTHER -> c

RECURSIVE Lower(_)
Lower(s) == IF Len(s) = 0 THEN "" ELSE LowerChar(Head(s)) \o Lower(Tail(s))

LogEntry(level, event, path) == [level |-> level, event |-> event, path |-> path]

\* _read_config_file: the parsed document, or the exception raised, and
\* what it logs.
ReadConfigFile(path, content, yaml_available) ==
    IF content.kind = "unreadable"
    THEN [data |-> EmptyDoc, exc |-> Exc("OSError", "cannot open the file"), log |-> <<>>]
    ELSE IF Lower(path.suffix) \in {".yaml", ".yml"}
    THEN IF ~yaml_available
         THEN [data |-> EmptyDoc, exc |-> NoExc,
               log |-> <<LogEntry("warning", "yaml file skipped, PyYAML missing", path)>>]
         ELSE IF content.kind = "unparseable"
         THEN [data |-> EmptyDoc, exc |-> Exc("YAMLError", "cannot parse the file"),
               log |-> <<>>]
         ELSE [data |-> IF DocTruthy(content.data) THEN content.data ELSE EmptyDoc,
               exc |-> NoExc, log |-> <<>>]
    ELSE IF Lower(path.suffix) = ".json"
    THEN IF content.kind = "unparseable"
         THEN [data |-> EmptyDoc, exc |-> Exc("JSONDecodeError", "cannot parse the file"),
               log |-> <<>>]
         ELSE [data |-> content.data, exc |-> NoExc, log |-> <<>>]
    ELSE [data |-> EmptyDoc, exc |-> Exc("ValueError", "unsupported config file format"),
          log |-> <<>>]

(***************************************************************************)
(* _merge_config.  Each operator returns the tree as the code leaves it    *)
(* and the exception raised, if any: what was set before an exception      *)
(* stays set.                                                              *)
(***************************************************************************)
\* for key, value in section.items(): if hasattr(obj, key): setattr(obj, key, value)
RECURSIVE MergeItems(_, _)
MergeItems(obj, items) ==
    IF items = <<>>
    THEN [obj |-> obj, exc |-> NoExc]
    ELSE LET it == Head(items)
         IN IF HasAttr(obj, it.k)
            THEN LET r == SetAttr(obj, it.k, it.v)
                 IN IF r.exc # NoExc THEN r ELSE MergeItems(r.obj, Tail(items))
            ELSE MergeItems(obj, Tail(items))

\* One "if '<section>' in config_data:" block of a dataclass section.
MergeSection(cfg, data, section) ==
    IF section \notin DOMAIN data.secs
    THEN [cfg |-> cfg, exc |-> NoExc]
    ELSE IF data.secs[section].shape # "dict"
    THEN [cfg |-> cfg, exc |-> Exc("AttributeError", "object has no attribute 'items'")]
    ELSE LET r == MergeItems(cfg[section], data.secs[section].items)
         IN [cfg |-> [cfg EXCEPT ![section] = r.obj], exc |-> r.exc]

\* dict.update(other) for a dict given as its items.
RECURSIVE DictUpdate(_, _)
DictUpdate(d, items) ==
    IF items = <<>>
    THEN d
    ELSE LET it == Head(items)
         IN DictUpdate([k \in DOMAIN d \cup {it.k} |-> IF k = it.k THEN it.v ELSE d[k]],
                       Tail(items))

\* if 'custom' in config_data: self._config.custom.update(config_data['custom'])
MergeCustom(cfg, data) ==
    IF "custom" \notin DOMAIN data.secs
    THEN [cfg |-> cfg, exc |-> NoExc]
    ELSE IF data.secs["custom"].shape # "dict"
    THEN \* dict.update takes the pairs of a list one by one and raises at
         \* the first element that is no pair.
         [cfg |-> [cfg EXCEPT !.custom = DictUpdate(@, data.secs["custom"].items)],
          exc |-> Exc("TypeError", "cannot convert dictionary update sequence")]
    ELSE [cfg |-> [cfg EXCEPT !.custom = DictUpdate(@, data.secs["custom"].items)],
          exc |-> NoExc]

\* The blocks of the five dataclass sections from the i-th on, then custom.
RECURSIVE MergeFrom(_, _, _)
MergeFrom(cfg, data, i) ==
    IF i > Len(FixedSections)
    THEN MergeCustom(cfg, data)
    ELSE LET r == MergeSection(cfg, data, FixedSections[i])
         IN IF r.exc # NoExc THEN r ELSE MergeFrom(r.cfg, data, i + 1)

MergeConfig(cfg, data) ==
    IF ~DocTruthy(data)
    THEN [cfg |-> cfg, exc |-> NoExc]
    ELSE IF data.top = "int"
    THEN [cfg |-> cfg, exc |-> Exc("TypeError", "argument of type 'int' is not iterable")]
    ELSE IF data.top # "dict"
    THEN [cfg |-> cfg, exc |-> NoExc]
    ELSE MergeFrom(cfg, data, 1)

(***************************************************************************)
(* The process environment: a function from the names of the variables    *)
(* that are set to their text.                                             *)
(***************************************************************************)
\* os.getenv(name, default)
GetEnv(environ, name, default) ==
    IF name \in DOMAIN environ THEN environ[name] ELSE default

\* A test that takes every variable that is set, also an empty one.
EnvTruthyWhenSet(environ, name) == name \in DOMAIN environ

\* "if os.getenv(name):" : the variable is set and its text is not empty.
EnvTruthy(environ, name) == name \in DOMAIN environ /\ environ[name] # ""

\* A loader whose file wins over the variables that exist.
LoadEnvFileOverrides(environ, env_file, dotenv_available) ==
    IF env_file.exists /\ dotenv_available
    THEN [k \in DOMAIN environ \cup DOMAIN env_file.pairs |->
            IF k \in DOMAIN env_file.pairs THEN env_file.pairs[k] ELSE environ[k]]
    ELSE environ

\* _load_env_file.  load_dotenv (override=False) sets the variables of the
\* file that the environment does not hold yet.
LoadEnvFile(environ, env_file, dotenv_available) ==
    IF env_file.exists /\ dotenv_available
    THEN [k \in DOMAIN environ \cup DOMAIN env_file.pairs |->
            IF k \in DOMAIN environ THEN environ[k] ELSE env_file.pairs[k]]
    ELSE environ

\* What _load_env_file logs.
LoadEnvFileLog(env_file, dotenv_available) ==
    IF env_file.exists /\ dotenv_available
    THEN <<[level |-> "info", event |-> "env file loaded",
            path |-> [dir |-> "", name |-> "", suffix |-> ".env"]]>>
    ELSE IF env_file.exists
    THEN <<[level |-> "warning", event |-> "env file found, python-dotenv missing",
            path |-> [dir |-> "", name |-> "", suffix |-> ".env"]]>>
    ELSE <<>>

(***************************************************************************)
(* int(text): optional blanks around an optional sign and decimal digits,  *)
(* single underscores allowed between digits.                              *)
(***************************************************************************)
DigitVal(c) ==
    CASE c = "0" -> 0 [] c = "1" -> 1 [] c = "2" -> 2 [] c = "3" -> 3
      [] c = "4" -> 4 [] c = "5" -> 5 [] c = "6" -> 6 [] c = "7" -> 7
      [] c = "8" -> 8 [] c = "9" -> 9 [] OTHER -> -1

RECURSIVE StripLeft(_)
StripLeft(s) == IF Len(s) > 0 /\ Head(s) = " " THEN StripLeft(Tail(s)) ELSE s

RECURSIVE StripRight(_)
StripRight(s) ==
    IF Len(s) > 0 /\ SubSeq(s, Len(s), Len(s)) = " "
    THEN StripRight(SubSeq(s, 1, Len(s) - 1))
    ELSE s

\* The value of the digits of s after acc, or -1 when s is no digit string.
RECURSIVE ParseDigits(_, _, _)
ParseDigits(s, acc, after_digit) ==
    IF Len(s) = 0
    THEN IF after_digit THEN acc ELSE -1
    ELSE IF DigitVal(Head(s)) >= 0
    THEN ParseDigits(Tail(s), acc * 10 + DigitVal(Head(s)), TRUE)
    ELSE IF Head(s) = "_" /\ after_digit
    THEN ParseDigits(Tail(s), acc, FALSE)
    ELSE -1

ParseInt(text) ==
    LET s == StripRight(StripLeft(text))
        signed == Len(s) > 0 /\ Head(s) \in {"+", "-"}
        digits == IF signed THEN Tail(s) ELSE s
        n == ParseDigits(digits, 0, FALSE)
    IN IF n < 0
       THEN [ok |-> FALSE, n |-> 0]
       ELSE [ok |-> TRUE, n |-> IF signed /\ Head(s) = "-" THEN 0 - n ELSE n]

(***************************************************************************)
(* _apply_env_overrides: the fourteen "if os.getenv(...)" statements, in   *)
(* the order of the code, each with the field it assigns and the           *)
(* conversion it applies.                                                  *)
(***************************************************************************)
Override(var, section, key, conv) ==
    [var |-> var, section |-> section, key |-> key, conv |-> conv]

\* A table in which DB_HOST assigns the schema name.
EnvOverridesHostToName ==
    << Override("DB_TYPE", "database", "type", "str"),
       Override("DB_HOST", "database", "database", "str"),
       Override("DB_PORT", "database", "port", "int"),
       Override("DB_NAME", "database", "database", "str"),
       Override("DB_USER", "database", "username", "str"),
       Override("DB_PASSWORD", "database", "password", "str"),
       Override("API_BASE_URL", "api", "base_url", "str"),
       Override("API_TIMEOUT", "api", "timeout", "int"),
       Override("API_MAX_RETRIES", "api", "max_retries", "int"),
       Override("BROWSER_HEADLESS", "browser", "headless", "lower_is_true"),
       Override("BROWSER_TIMEOUT", "browser", "timeout", "int"),
       Override("BROWSER_VIEWPORT_WIDTH", "browser", "viewport_width", "int"),
       Override("BROWSER_VIEWPORT_HEIGHT", "browser", "viewport_height", "int"),
       Override("BROWSER_TYPE", "browser", "browser_type", "str") >>

EnvOverrides ==
    << Override("DB_TYPE", "database", "type", "str"),
       Override("DB_HOST", "database", "host", "str"),
       Override("DB_PORT", "database", "port", "int"),
       Override("DB_NAME", "database", "database", "str"),
       Override("DB_USER", "database", "username", "str"),
       Override("DB_PASSWORD", "database", "password", "str"),
       Override("API_BASE_URL", "api", "base_url", "str"),
       Override("API_TIMEOUT", "api", "timeout", "int"),
       Override("API_MAX_RETRIES", "api", "max_retries", "int"),
       Override("BROWSER_HEADLESS", "browser", "headless", "lower_is_true"),
       Override("BROWSER_TIMEOUT", "browser", "timeout", "int"),
       Override("BROWSER_VIEWPORT_WIDTH", "browser", "viewport_width", "int"),
       Override("BROWSER_VIEWPORT_HEIGHT", "browser", "viewport_height", "int"),
       Override("BROWSER_TYPE", "browser", "browser_type", "str") >>

\* The value one statement assigns, or the ValueError of int().
Coerce(conv, text) ==
    CASE conv = "int" ->
           IF ParseInt(text).ok
           THEN [v |-> VInt(ParseInt(text).n), exc |-> NoExc]
           ELSE [v |-> VNone, exc |-> Exc("ValueError", "invalid literal for int() with base 10")]
      [] conv = "lower_is_true" -> [v |-> VBool(Lower(text) = "true"), exc |-> NoExc]
      [] OTHER -> [v |-> VStr(text), exc |-> NoExc]

RECURSIVE ApplyOverridesFrom(_, _, _)
ApplyOverridesFrom(cfg, environ, i) ==
    IF i > Len(EnvOverrides)
    THEN [cfg |-> cfg, exc |-> NoExc]
    ELSE LET o == EnvOverrides[i]
         IN IF ~EnvTruthy(environ, o.var)
            THEN ApplyOverridesFrom(cfg, environ, i + 1)
            ELSE LET c == Coerce(o.conv, environ[o.var])
                 IN IF c.exc # NoExc
                    THEN [cfg |-> cfg, exc |-> c.exc]
                    ELSE ApplyOverridesFrom([cfg EXCEPT ![o.section][o.key] = c.v],
                                            environ, i + 1)

ApplyEnvOverrides(cfg, environ) == ApplyOverridesFrom(cfg, environ, 1)

(***************************************************************************)
(* _validate_config: the checks in the order of the code, each with the    *)
(* line it appends to errors.                                              *)
(***************************************************************************)
DatabaseTypes == {"sqlite", "mysql", "postgresql", "mongodb"}

BrowserTypes == {"chromium", "firefox", "webkit"}

\* value in [list of strings]
InStrings(v, strings) == v.t = "str" /\ v.s \in strings

\* The checks without that of the browser timeout.
ValidationLinesNoBrowserTimeout(cfg) ==
    (IF ~InStrings(cfg.database.type, DatabaseTypes)
     THEN <<"unsupported database type">> ELSE <<>>)
    \o (IF ~Truthy(cfg.api.base_url)
        THEN <<"API base_url must not be empty">> ELSE <<>>)
    \o (IF cfg.api.timeout.n <= 0
        THEN <<"API timeout must be greater than 0">> ELSE <<>>)
    \o (IF ~InStrings(cfg.browser.browser_type, BrowserTypes)
        THEN <<"unsupported browser type">> ELSE <<>>)
    \o (IF cfg.performance.default_concurrent_users.n <= 0
        THEN <<"concurrent users must be greater than 0">> ELSE <<>>)
    \o (IF cfg.performance.min_success_rate.n < 0 \/ cfg.performance.min_success_rate.n > 100
        THEN <<"min success rate must be within 0-100">> ELSE <<>>)

ValidationLines(cfg) ==
    (IF ~InStrings(cfg.database.type, DatabaseTypes)
     THEN <<"unsupported database type">> ELSE <<>>)
    \o (IF ~Truthy(cfg.api.base_url)
        THEN <<"API base_url must not be empty">> ELSE <<>>)
    \o (IF cfg.api.timeout.n <= 0
        THEN <<"API timeout must be greater than 0">> ELSE <<>>)
    \o (IF ~InStrings(cfg.browser.browser_type, BrowserTypes)
        THEN <<"unsupported browser type">> ELSE <<>>)
    \o (IF cfg.browser.timeout.n <= 0
        THEN <<"browser timeout must be greater than 0">> ELSE <<>>)
    \o (IF cfg.performance.default_concurrent_users.n <= 0
        THEN <<"concurrent users must be greater than 0">> ELSE <<>>)
    \o (IF cfg.performance.min_success_rate.n < 0 \/ cfg.performance.min_success_rate.n > 100
        THEN <<"min success rate must be within 0-100">> ELSE <<>>)

\* The fields _validate_config compares with a number.
ComparedFields(cfg) ==
    {cfg.api.timeout, cfg.browser.timeout,
     cfg.performance.default_concurrent_users, cfg.performance.min_success_rate}

NoPath == [dir |-> "", name |-> "", suffix |-> ""]

\* The exception _validate_config raises, NoExc when it returns, and what
\* it logs.
ValidateConfig(cfg) ==
    IF \E v \in ComparedFields(cfg) : ~Numeric(v)
    THEN [exc |-> Exc("TypeError", "'<=' not supported between instances"),
          log |-> <<>>]
    ELSE IF ValidationLines(cfg) # <<>>
    THEN [exc |-> [type |-> "ValueError", msg |-> "config validation failed",
                   lines |-> ValidationLines(cfg)],
          log |-> <<LogEntry("error", "config validation failed", NoPath)>>]
    ELSE [exc |-> NoExc, log |-> <<LogEntry("info", "config validated", NoPath)>>]

(***************************************************************************)
(* The two file layers.  A layer tries its candidates in order; the first  *)
(* that is read and merged without an exception ends the loop.  The log    *)
(* holds what the logger is given.                                         *)
(***************************************************************************)
ConfigDir == "config"

Suffixes == <<".yaml", ".yml", ".json">>

\* config_files of _load_base_config
BaseCandidates == [i \in 1..Len(Suffixes) |-> Path(ConfigDir, "config", Suffixes[i])]

\* Candidates of the default environment, whatever the tag.
EnvCandidatesOfTest(environment) ==
    [i \in 1..Len(Suffixes) |-> Path(ConfigDir, "config.test", Suffixes[i])]

\* env_config_files of _load_environment_config
EnvCandidates(environment) ==
    [i \in 1..Len(Suffixes) |-> Path(ConfigDir, "config." \o environment, Suffixes[i])]

\* The for loop of _load_base_config / _load_environment_config from the
\* i-th candidate on.
RECURSIVE LoadCandidates(_, _, _, _, _, _)
LoadCandidates(cfg, log, files, yaml_available, paths, i) ==
    IF i > Len(paths)
    THEN [cfg |-> cfg, log |-> log]
    ELSE IF paths[i] \notin DOMAIN files
    THEN LoadCandidates(cfg, log, files, yaml_available, paths, i + 1)
    ELSE LET r == ReadConfigFile(paths[i], files[paths[i]], yaml_available)
             m == MergeConfig(cfg, r.data)
             failed == Append(log \o r.log, LogEntry("warning", "failed", paths[i]))
         IN IF r.exc # NoExc
            THEN LoadCandidates(cfg, failed, files, yaml_available, paths, i + 1)
            ELSE IF m.exc # NoExc
            THEN LoadCandidates(m.cfg, failed, files, yaml_available, paths, i + 1)
            ELSE [cfg |-> m.cfg,
                  log |-> Append(log \o r.log, LogEntry("info", "loaded", paths[i]))]

LoadBaseConfig(cfg, log, files, yaml_available) ==
    LoadCandidates(cfg, log, files, yaml_available, BaseCandidates, 1)

LoadEnvironmentConfig(cfg, log, files, yaml_available, environment) ==
    LoadCandidates(cfg, log, files, yaml_available, EnvCandidates(environment), 1)

(***************************************************************************)
(* ConfigManager.__init__ with its default arguments: the exception it     *)
(* raises (NoExc when the manager is constructed), the manager, the        *)
(* process environment it leaves and what it logged.                       *)
(***************************************************************************)
\* __init__ with _load_config applying the environment variables before
\* the files, so that the files win.
ConfigManagerInitEnvFirst(files, environ, env_file, yaml_available, dotenv_available) ==
    LET environ1 == LoadEnvFile(environ, env_file, dotenv_available)
        environment == GetEnv(environ1, "TEST_ENV", "test")
        cfg0 == [TestConfig EXCEPT !.environment = environment]
        over == ApplyEnvOverrides(cfg0, environ1)
        base == LoadBaseConfig(over.cfg, LoadEnvFileLog(env_file, dotenv_available),
                               files, yaml_available)
        envl == LoadEnvironmentConfig(base.cfg, base.log, files, yaml_available, environment)
        valid == ValidateConfig(envl.cfg)
    IN [exc |-> IF over.exc # NoExc THEN over.exc ELSE valid.exc,
        manager |-> [config |-> envl.cfg, environment |-> environment],
        environ |-> environ1,
        log |-> IF over.exc # NoExc THEN envl.log ELSE envl.log \o valid.log]

\* __init__ with _load_config validating after each layer.
ConfigManagerInitValidatesEachLayer(files, environ, env_file, yaml_available, dotenv_available) ==
    LET environ1 == LoadEnvFile(environ, env_file, dotenv_available)
        environment == GetEnv(environ1, "TEST_ENV", "test")
        cfg0 == [TestConfig EXCEPT !.environment = environment]
        base == LoadBaseConfig(cfg0, LoadEnvFileLog(env_file, dotenv_available),
                               files, yaml_available)
        valid1 == ValidateConfig(base.cfg)
        envl == LoadEnvironmentConfig(base.cfg, base.log, files, yaml_available, environment)
        valid2 == ValidateConfig(envl.cfg)
        over == ApplyEnvOverrides(envl.cfg, environ1)
        valid == ValidateConfig(over.cfg)
    IN [exc |-> IF valid1.exc # NoExc THEN valid1.exc
                ELSE IF valid2.exc # NoExc THEN valid2.exc
                ELSE IF over.exc # NoExc THEN over.exc ELSE valid.exc,
        manager |-> [config |-> over.cfg, environment |-> environment],
        environ |-> environ1,
        log |-> IF valid1.exc # NoExc THEN base.log \o valid1.log
                ELSE IF valid2.exc # NoExc THEN envl.log \o valid2.log
                ELSE IF over.exc # NoExc THEN envl.log ELSE envl.log \o valid.log]

\* __init__ reading TEST_ENV before it loads the environment-variable file.
ConfigManagerInitTagFirst(files, environ, env_file, yaml_available, dotenv_available) ==
    LET environment == GetEnv(environ, "TEST_ENV", "test")
        environ1 == LoadEnvFile(environ, env_file, dotenv_available)
        cfg0 == [TestConfig EXCEPT !.environment = environment]
        base == LoadBaseConfig(cfg0, LoadEnvFileLog(env_file, dotenv_available),
                               files, yaml_available)
        envl == LoadEnvironmentConfig(base.cfg, base.log, files, yaml_available, environment)
        over == ApplyEnvOverrides(envl.cfg, environ1)
        valid == ValidateConfig(over.cfg)
    IN [exc |-> IF over.exc # NoExc THEN over.exc ELSE valid.exc,
        manager |-> [config |-> over.cfg, environment |-> environment],
        environ |-> environ1,
        log |-> IF over.exc # NoExc THEN envl.log ELSE envl.log \o valid.log]

ConfigManagerInit(files, environ, env_file, yaml_available, dotenv_available) ==
    LET environ1 == LoadEnvFile(environ, env_file, dotenv_available)
        environment == GetEnv(environ1, "TEST_ENV", "test")
        cfg0 == [TestConfig EXCEPT !.environment = environment]
        base == LoadBaseConfig(cfg0, LoadEnvFileLog(env_file, dotenv_available),
                               files, yaml_available)
        envl == LoadEnvironmentConfig(base.cfg, base.log, files, yaml_available, environment)
        over == ApplyEnvOverrides(envl.cfg, environ1)
        valid == ValidateConfig(over.cfg)
    IN [exc |-> IF over.exc # NoExc THEN over.exc ELSE valid.exc,
        manager |-> [config |-> over.cfg, environment |-> environment],
        environ |-> environ1,
        log |-> IF over.exc # NoExc THEN envl.log ELSE envl.log \o valid.log]

(***************************************************************************)
(* update_config: the tree it leaves and the exception it raises.          *)
(***************************************************************************)
\* update_config whose custom branch is the final else.
UpdateConfigResultElseCustom(cfg, section, key, value) ==
    IF section \in FixedSectionSet /\ HasAttr(cfg[section], key)
    THEN LET r == SetAttr(cfg[section], key, value)
         IN [cfg |-> [cfg EXCEPT ![section] = r.obj], exc |-> r.exc]
    ELSE [cfg |-> [cfg EXCEPT !.custom =
                     [k \in DOMAIN @ \cup {key} |-> IF k = key THEN value ELSE @[k]]],
          exc |-> NoExc]

\* update_config whose custom branch is custom.setdefault(key, value).
UpdateConfigResultSetDefault(cfg, section, key, value) ==
    IF section \in FixedSectionSet /\ HasAttr(cfg[section], key)
    THEN LET r == SetAttr(cfg[section], key, value)
         IN [cfg |-> [cfg EXCEPT ![section] = r.obj], exc |-> r.exc]
    ELSE IF section = "custom"
    THEN [cfg |-> [cfg EXCEPT !.custom =
                     [k \in DOMAIN @ \cup {key} |-> IF k \in DOMAIN @ THEN @[k] ELSE value]],
          exc |-> NoExc]
    ELSE [cfg |-> cfg, exc |-> Exc("ValueError", "unknown config section or key")]

\* update_config that validates the tree it would leave and refuses the
\* change when a check fails.
UpdateConfigResultValidates(cfg, section, key, value) ==
    IF section \in FixedSectionSet /\ HasAttr(cfg[section], key)
    THEN LET r == SetAttr(cfg[section], key, value)
             changed == [cfg EXCEPT ![section] = r.obj]
         IN IF r.exc = NoExc /\ ValidateConfig(changed).exc # NoExc
            THEN [cfg |-> cfg, exc |-> ValidateConfig(changed).exc]
            ELSE [cfg |-> changed, exc |-> r.exc]
    ELSE IF section = "custom"
    THEN [cfg |-> [cfg EXCEPT !.custom =
                     [k \in DOMAIN @ \cup {key} |-> IF k = key THEN value ELSE @[k]]],
          exc |-> NoExc]
    ELSE [cfg |-> cfg, exc |-> Exc("ValueError", "unknown config section or key")]

UpdateConfigResult(cfg, section, key, value) ==
    IF section \in FixedSectionSet /\ HasAttr(cfg[section], key)
    THEN LET r == SetAttr(cfg[section], key, value)
         IN [cfg |-> [cfg EXCEPT ![section] = r.obj], exc |-> r.exc]
    ELSE IF section = "custom"
    THEN [cfg |-> [cfg EXCEPT !.custom =
                     [k \in DOMAIN @ \cup {key} |-> IF k = key THEN value ELSE @[k]]],
          exc |-> NoExc]
    ELSE [cfg |-> cfg, exc |-> Exc("ValueError", "unknown config section or key")]

(***************************************************************************)
(* save_config.  The document it builds lists the fields in the order of   *)
(* the code; the file it writes holds what the parser of its format gives  *)
(* back when the file is read.                                             *)
(***************************************************************************)
\* The keys of config_data, section by section.
\* The keys with 'password' among those of 'database'.
SavedFieldsWithPassword ==
    [database |-> <<"type", "host", "port", "database", "username", "password",
                    "connection_pool_size", "timeout">>,
     api |-> <<"base_url", "timeout", "max_retries", "retry_delay", "verify_ssl", "headers">>,
     browser |-> <<"headless", "timeout", "viewport_width", "viewport_height",
                   "browser_type", "slow_mo", "devtools", "args">>,
     report |-> <<"allure_results_dir", "html_report_path", "screenshot_dir", "video_dir",
                  "generate_allure", "generate_html", "capture_screenshots",
                  "capture_videos">>,
     performance |-> <<"default_concurrent_users", "default_requests_per_user",
                       "max_response_time_ms", "min_success_rate", "ramp_up_time",
                       "results_dir">>]

SavedFields ==
    [database |-> <<"type", "host", "port", "database", "username",
                    "connection_pool_size", "timeout">>,
     api |-> <<"base_url", "timeout", "max_retries", "retry_delay", "verify_ssl", "headers">>,
     browser |-> <<"headless", "timeout", "viewport_width", "viewport_height",
                   "browser_type", "slow_mo", "devtools", "args">>,
     report |-> <<"allure_results_dir", "html_report_path", "screenshot_dir", "video_dir",
                  "generate_allure", "generate_html", "capture_screenshots",
                  "capture_videos">>,
     performance |-> <<"default_concurrent_users", "default_requests_per_user",
                       "max_response_time_ms", "min_success_rate", "ramp_up_time",
                       "results_dir">>]

\* The items of a dict, in some order.
RECURSIVE DictItems(_)
DictItems(d) ==
    IF DOMAIN d = {}
    THEN <<>>
    ELSE LET k == CHOOSE x \in DOMAIN d : TRUE
         IN <<Item(k, d[k])>> \o DictItems([x \in DOMAIN d \ {k} |-> d[x]])

\* config_data without the key 'timeout' of 'api'.
ConfigDataWithoutApiTimeout(cfg) ==
    Doc([section \in FixedSectionSet \cup {"custom"} |->
           IF section = "custom"
           THEN SecDict(DictItems(cfg.custom))
           ELSE IF section = "api"
           THEN SecDict(<<Item("base_url", cfg.api.base_url),
                          Item("max_retries", cfg.api.max_retries),
                          Item("retry_delay", cfg.api.retry_delay),
                          Item("verify_ssl", cfg.api.verify_ssl),
                          Item("headers", cfg.api.headers)>>)
           ELSE SecDict([i \in 1..Len(SavedFields[section]) |->
                           Item(SavedFields[section][i], cfg[section][SavedFields[section][i]])])])

\* config_data
ConfigData(cfg) ==
    Doc([section \in FixedSectionSet \cup {"custom"} |->
           IF section = "custom"
           THEN SecDict(DictItems(cfg.custom))
           ELSE SecDict([i \in 1..Len(SavedFields[section]) |->
                           Item(SavedFields[section][i], cfg[section][SavedFields[section][i]])])])

\* The values of a document.
DocValues(data) ==
    UNION {{data.secs[section].items[i].v : i \in 1..Len(data.secs[section].items)} :
             section \in DOMAIN data.secs}

\* What json.load gives for what json.dump wrote: a tuple is written as an
\* array and read as a list.
JsonValue(v) == IF v.t = "tuple" THEN [v EXCEPT !.t = "list"] ELSE v

\* The file json.dump writes.
JsonFile(data) ==
    Parsed(Doc([section \in DOMAIN data.secs |->
                  SecDict([i \in 1..Len(data.secs[section].items) |->
                             Item(data.secs[section].items[i].k,
                                  JsonValue(data.secs[section].items[i].v))])]))

\* The file yaml.dump writes: a tuple is written with the tag
\* !!python/tuple, which yaml.safe_load refuses.
YamlFile(data) ==
    IF \E v \in DocValues(data) : v.t = "tuple" THEN Unparseable ELSE Parsed(data)

\* Path.with_suffix
WithSuffix(path, suffix) == [path EXCEPT !.suffix = suffix]

\* The argument None of save_config.
NoTarget == [dir |-> "", name |-> "", suffix |-> ""]

\* save_config writing JSON to the target itself, whatever its suffix.
SaveConfigResultKeepsSuffix(manager, files, config_file, yaml_available) ==
    LET target == IF config_file = NoTarget
                  THEN Path(ConfigDir, "config." \o manager.environment, ".yaml")
                  ELSE config_file
        data == ConfigData(manager.config)
        as_yaml == Lower(target.suffix) \in {".yaml", ".yml"} /\ yaml_available
        content == IF as_yaml THEN YamlFile(data) ELSE JsonFile(data)
    IN [files |-> [p \in DOMAIN files \cup {target} |->
                     IF p = target THEN content ELSE files[p]],
        path |-> target]

\* save_config(config_file): the file system it leaves and the path it
\* wrote.
SaveConfigResult(manager, files, config_file, yaml_available) ==
    LET target == IF config_file = NoTarget
                  THEN Path(ConfigDir, "config." \o manager.environment, ".yaml")
                  ELSE config_file
        data == ConfigData(manager.config)
        as_yaml == Lower(target.suffix) \in {".yaml", ".yml"} /\ yaml_available
        written == IF as_yaml THEN target ELSE WithSuffix(target, ".json")
        content == IF as_yaml THEN YamlFile(data) ELSE JsonFile(data)
    IN [files |-> [p \in DOMAIN files \cup {written} |->
                     IF p = written THEN content ELSE files[p]],
        path |-> written]

\* The section each typed accessor returns.
AccessorSection ==
    [get_database_config |-> "database", get_api_config |-> "api",
     get_browser_config |-> "browser", get_report_config |-> "report",
     get_performance_config |-> "performance"]

\* The config property and the typed accessors: the tree they leave and
\* what they return.
AccessorResult(cfg, accessor) ==
    [cfg |-> cfg,
     value |-> IF accessor = "config" THEN cfg ELSE cfg[AccessorSection[accessor]]]

\* A get_custom_config that stores the default of a missing key, as
\* custom.setdefault(key, default) does.
GetCustomConfigResultSetsDefault(cfg, key, default) ==
    [cfg |-> IF key \in DOMAIN cfg.custom
             THEN cfg
             ELSE [cfg EXCEPT !.custom = DictUpdate(@, <<Item(key, default)>>)],
     value |-> IF key \in DOMAIN cfg.custom THEN cfg.custom[key] ELSE default]

\* get_custom_config(key, default): the tree it leaves and what it returns.
GetCustomConfigResult(cfg, key, default) ==
    [cfg |-> cfg,
     value |-> IF key \in DOMAIN cfg.custom THEN cfg.custom[key] ELSE default]

\* get_custom_config(key, default): custom.get(key, default)
GetCustomConfig(cfg, key, default) ==
    IF key \in DOMAIN cfg.custom THEN cfg.custom[key] ELSE default

(***************************************************************************)
(* src/utils/retry_decorator.py.  What one call of the wrapped function    *)
(* does: it returns a value that has no status_code, it returns a          *)
(* response with a status code, or it raises an exception of a type.       *)
(***************************************************************************)
Returns(v) == [kind |-> "value", status |-> 0, type |-> "", v |-> v]

Response(status) == [kind |-> "response", status |-> status, type |-> "", v |-> 0]

Raises(type) == [kind |-> "raise", status |-> 0, type |-> type, v |-> 0]

\* The classes of the exceptions, each with its bases.
Bases ==
    [ConnectionError |-> {"ConnectionError", "OSError", "Exception", "BaseException"},
     TimeoutError |-> {"TimeoutError", "OSError", "Exception", "BaseException"},
     RequestException |-> {"RequestException", "OSError", "Exception", "BaseException"},
     ValueError |-> {"ValueError", "Exception", "BaseException"},
     AssertionError |-> {"AssertionError", "Exception", "BaseException"},
     KeyboardInterrupt |-> {"KeyboardInterrupt", "BaseException"}]

\* "except classes as e" catches an exception of this type.
Catches(classes, type) == Bases[type] \cap classes # {}

\* No wrapper is running.
NoWrapper ==
    [decorator |-> "none", max_retries |-> 0, skip_on_final_failure |-> FALSE,
     exceptions |-> {}, retry_status_codes |-> {}, pc |-> "idle", attempt |-> 0,
     history |-> <<>>, outcome |-> "none", result |-> Returns(0)]

\* wrapper(*args, **kwargs) is entered: the for loop starts.
Wrapper(decorator, max_retries, skip_on_final_failure, exceptions, retry_status_codes) ==
    [decorator |-> decorator, max_retries |-> max_retries,
     skip_on_final_failure |-> skip_on_final_failure, exceptions |-> exceptions,
     retry_status_codes |-> retry_status_codes, pc |-> "loop", attempt |-> 0,
     history |-> <<>>, outcome |-> "none", result |-> Returns(0)]

\* The wrapper ends: it returned the result, raised it, or called
\* pytest.skip.
Ends(w, o, outcome) ==
    [w EXCEPT !.pc = "done", !.history = Append(@, o), !.outcome = outcome, !.result = o]

\* time.sleep, then the next iteration of the loop.
Again(w, o) == [w EXCEPT !.attempt = @ + 1, !.history = Append(@, o)]

\* retry_on_failure with one attempt more than range(max_retries + 1) has.
RetryOnFailureCallOneMore(w, o) ==
    IF o.kind # "raise"
    THEN Ends(w, o, "returned")
    ELSE IF Catches(w.exceptions, o.type)
    THEN IF w.attempt <= w.max_retries
         THEN Again(w, o)
         ELSE IF w.skip_on_final_failure
         THEN Ends(w, o, "skipped")
         ELSE Ends(w, o, "raised")
    ELSE Ends(w, o, "raised")

\* One iteration of the loop of retry_on_failure's wrapper, in which func
\* does o.
RetryOnFailureCall(w, o) ==
    IF o.kind # "raise"
    THEN Ends(w, o, "returned")
    ELSE IF Catches(w.exceptions, o.type)
    THEN IF w.attempt < w.max_retries
         THEN Again(w, o)
         ELSE IF w.skip_on_final_failure
         THEN Ends(w, o, "skipped")
         ELSE Ends(w, o, "raised")
    ELSE Ends(w, o, "raised")

\* retry_on_http_error that takes every status from 500 on for one to
\* retry.
RetryOnHttpErrorCallAnyServerError(w, o) ==
    IF o.kind = "response" /\ o.status >= 500
    THEN IF w.attempt < w.max_retries
         THEN Again(w, o)
         ELSE IF w.skip_on_final_failure
         THEN Ends(w, o, "skipped")
         ELSE Ends(w, o, "returned")
    ELSE IF o.kind # "raise"
    THEN Ends(w, o, "returned")
    ELSE IF Catches({"RequestException"}, o.type)
    THEN IF w.attempt < w.max_retries
         THEN Again(w, o)
         ELSE IF w.skip_on_final_failure
         THEN Ends(w, o, "skipped")
         ELSE Ends(w, o, "raised")
    ELSE Ends(w, o, "raised")

\* One iteration of the loop of retry_on_http_error's wrapper, in which
\* func does o.
RetryOnHttpErrorCall(w, o) ==
    IF o.kind = "response" /\ o.status \in w.retry_status_codes
    THEN IF w.attempt < w.max_retries
         THEN Again(w, o)
         ELSE IF w.skip_on_final_failure
         THEN Ends(w, o, "skipped")
         ELSE Ends(w, o, "returned")
    ELSE IF o.kind # "raise"
    THEN Ends(w, o, "returned")
    ELSE IF Catches({"RequestException"}, o.type)
    THEN IF w.attempt < w.max_retries
         THEN Again(w, o)
         ELSE IF w.skip_on_final_failure
         THEN Ends(w, o, "skipped")
         ELSE Ends(w, o, "raised")
    ELSE Ends(w, o, "raised")

(***************************************************************************)
(* src/utils/performance_tester.py.  A PerformanceMetrics object is its    *)
(* counters and the number of response times it holds.  Objects live in a  *)
(* heap and are named by their place in it, so that two names of one       *)
(* object show the same counters.                                          *)
(***************************************************************************)
Metrics(total, successful, failed, times) ==
    [total_requests |-> total, successful_requests |-> successful,
     failed_requests |-> failed, response_times |-> times]

\* PerformanceMetrics()
NewMetrics == Metrics(0, 0, 0, 0)

\* PerformanceTester(base_url): self.metrics = PerformanceMetrics().  runs
\* lists the runs made, results is the list stress_test builds, returned
\* what the last call returned.
PerformanceTesterInit ==
    [heap |-> <<NewMetrics>>, metrics |-> 1, pc |-> "idle", runs |-> <<>>,
     users |-> 0, max_users |-> 0, step_size |-> 0, step_duration |-> 0,
     results |-> <<>>, returned |-> <<>>]

\* A run of users x requests_per_user requests of which ok succeed.
Run(users, requests_per_user, ok) ==
    [users |-> users, requests_per_user |-> requests_per_user, ok |-> ok]

\* The sum of the user_metrics of the tasks of a run.
UserMetricsSum(run) ==
    Metrics(run.users * run.requests_per_user, run.ok,
            run.users * run.requests_per_user - run.ok,
            run.users * run.requests_per_user)

\* _run_concurrent_requests: the results of the tasks are added to
\* self.metrics, and self.metrics is returned.
RunConcurrentRequests(t, run) ==
    [t EXCEPT !.heap[t.metrics] =
                 Metrics(@.total_requests + UserMetricsSum(run).total_requests,
                         @.successful_requests + UserMetricsSum(run).successful_requests,
                         @.failed_requests + UserMetricsSum(run).failed_requests,
                         @.response_times + UserMetricsSum(run).response_times),
              !.runs = Append(@, run)]

\* metrics.success_rate < 95
SuccessRateBelow95(m) ==
    IF m.total_requests = 0
    THEN TRUE
    ELSE m.successful_requests * 100 < 95 * m.total_requests

\* max(1, step_duration // 2)
StageRequestsPerUser(step_duration) ==
    IF step_duration \div 2 > 1 THEN step_duration \div 2 ELSE 1

(***************************************************************************)
(* src/tools/file_downloader.py.  A FileDownloader is its max_retries,     *)
(* its three counters and the names of the files in its save_dir; with     *)
(* them go the number of download_single_file calls made with a URL that   *)
(* is not blank, what the last call was given, returned and requested,     *)
(* and what get_statistics returned last.                                  *)
(***************************************************************************)
NoStatistics == [downloaded |-> 0, skipped |-> 0, failed |-> 0, total |-> 0]

NoDownload == [url |-> "", filename |-> "", returned |-> FALSE, requests |-> 0]

\* FileDownloader(save_dir, timeout, max_retries)
FileDownloaderInit(max_retries) ==
    [max_retries |-> max_retries, downloaded_count |-> 0, skipped_count |-> 0,
     failed_count |-> 0, existing |-> {}, downloads |-> 0, last |-> NoDownload,
     statistics |-> NoStatistics]

\* download_single_file returns.
Returned(d, url, filename, returned, requests) ==
    [d EXCEPT !.last = [url |-> url, filename |-> filename, returned |-> returned,
                        requests |-> requests]]

\* The for loop of download_single_file from this attempt on.  outcomes
\* tells what each request does: "ok", "request_exception" (raised by
\* session.get, raise_for_status or iter_content) or "exception".
RECURSIVE DownloadAttempts(_, _, _, _, _)
DownloadAttempts(d, url, filename, outcomes, attempt) ==
    IF attempt >= d.max_retries
    THEN Returned(d, url, filename, FALSE, attempt)
    ELSE IF outcomes[attempt + 1] = "ok"
    THEN Returned([d EXCEPT !.downloaded_count = @ + 1,
                            !.existing = @ \cup {filename}],
                  url, filename, TRUE, attempt + 1)
    ELSE IF outcomes[attempt + 1] = "request_exception" /\ attempt < d.max_retries - 1
    THEN DownloadAttempts(d, url, filename, outcomes, attempt + 1)
    ELSE Returned([d EXCEPT !.failed_count = @ + 1, !.existing = @ \ {filename}],
                  url, filename, FALSE, attempt + 1)

\* download_single_file(url, filename), for a filename that
\* sanitize_filename leaves as it is and that has an extension.
DownloadSingleFile(d, url, filename, outcomes) ==
    IF url = "" \/ StripRight(StripLeft(url)) = ""
    THEN Returned(d, url, filename, FALSE, 0)
    ELSE IF filename \in d.existing
    THEN Returned([d EXCEPT !.skipped_count = @ + 1, !.downloads = @ + 1],
                  url, filename, TRUE, 0)
    ELSE DownloadAttempts([d EXCEPT !.downloads = @ + 1], url, filename, outcomes, 0)

\* get_statistics(), without the success rate.
GetStatistics(d) ==
    [downloaded |-> d.downloaded_count, skipped |-> d.skipped_count,
     failed |-> d.failed_count,
     total |-> d.downloaded_count + d.skipped_count + d.failed_count]

(***************************************************************************)
(* The state: the file system, the environment-variable file, the process  *)
(* environment, whether the optional imports succeeded, the module-level   *)
(* _config_manager (<<>> for None, <<m>> for a manager m), the call made   *)
(* last with what it raised and logged, the number of update_config and    *)
(* save_config calls made, and the run of verify_config_system of          *)
(* src/scripts/verify_improvements.py: where it stands and the manager its *)
(* local variable holds.                                                   *)
(***************************************************************************)
VARIABLES files, env_file, environ, yaml_available, dotenv_available,
          config_manager, last, calls, verify_pc, verify_manager, retry, tester,
          downloader

\* The state of the configuration manager and of its callers.
config_vars == <<files, env_file, environ, yaml_available, dotenv_available,
                 config_manager, last, calls, verify_pc, verify_manager>>

\* The state of the utilities of src/utils and src/tools.
utils == <<retry, tester, downloader>>

vars == <<config_vars, utils>>

\* The most update_config and save_config calls of one run.
MaxCalls == 2

\* The most environment variables set at once when the process starts.
MaxEnvVars == 1

Call(op, section, key, value, exc, log) ==
    [op |-> op, section |-> section, key |-> key, value |-> value,
     target |-> NoTarget, returned |-> VNone, exc |-> exc, log |-> log]

NoCall == Call("none", "", "", VNone, NoExc, <<>>)

(***************************************************************************)
(* The inputs the runs start from.                                         *)
(***************************************************************************)
Absent == [kind |-> "absent", data |-> EmptyDoc]

\* The file system that holds the files of an assignment of contents.
FilesOf(assign) == [p \in {q \in DOMAIN assign : assign[q].kind # "absent"} |-> assign[p]]

OneField(section, key, value) == Doc(section :> SecDict(<<Item(key, value)>>))

BaseJson == Path(ConfigDir, "config", ".json")

EnvJson(environment) == Path(ConfigDir, "config." \o environment, ".json")

\* One line of problems each: two violations, three violations, an unknown
\* key with an unknown section, an attribute that is no field, an attribute
\* setattr refuses in the middle of a section, a section that is a list.
DocTwoViolations ==
    Doc(("database" :> SecDict(<<Item("type", VStr("oracle"))>>))
        @@ ("performance" :> SecDict(<<Item("min_success_rate", VInt(150))>>)))

DocThreeViolations ==
    Doc(("browser" :> SecDict(<<Item("browser_type", VStr("opera")),
                                Item("timeout", VInt(0))>>))
        @@ ("performance" :> SecDict(<<Item("default_concurrent_users", VInt(0))>>)))

DocUnknownKeys ==
    Doc(("database" :> SecDict(<<Item("nonexistent_field", VInt(5)),
                                 Item("host", VStr("db.example"))>>))
        @@ ("logging" :> SecDict(<<Item("level", VStr("debug"))>>)))

DocObjectAttr ==
    Doc("report" :> SecDict(<<Item("__doc__", VStr("text")),
                              Item("video_dir", VStr("clips"))>>))

DocRefusedAttr ==
    Doc(("database" :> SecDict(<<Item("host", VStr("db.example")),
                                 Item("__class__", VStr("text")),
                                 Item("port", VInt(3306))>>))
        @@ ("api" :> SecDict(<<Item("timeout", VInt(7))>>)))

DocListSection ==
    Doc(("database" :> SecDict(<<Item("host", VStr("db.example"))>>))
        @@ ("api" :> SecOther))

DocCustom ==
    Doc("custom" :> SecDict(<<Item("a", VInt(1)), Item("b", VInt(2))>>))

DocCustomPairsThenOther ==
    Doc("custom" :> SecPairsThenOther(<<Item("x", VInt(1))>>))

LayerDocs ==
    { OneField("api", "timeout", VInt(10)),
      OneField("api", "timeout", VInt(20)),
      OneField("api", "timeout", VInt(-1)),
      OneField("api", "timeout", VStr("abc")),
      OneField("api", "base_url", VStr("")),
      OneField("api", "base_url", VStr("http://localhost:8000")),
      OneField("database", "type", VStr("mysql")),
      OneField("database", "port", VInt(-1)),
      OneField("performance", "min_success_rate", VInt(-1)),
      DocTwoViolations, DocThreeViolations, DocUnknownKeys, DocObjectAttr,
      DocRefusedAttr, DocListSection, DocCustom,
      NonDictDoc("none"), NonDictDoc("list"), NonDictDoc("int") }

EnvLayerDocs ==
    { OneField("api", "timeout", VInt(20)),
      OneField("api", "timeout", VInt(-1)),
      OneField("database", "type", VStr("mysql")),
      OneField("database", "type", VStr("oracle")),
      OneField("performance", "min_success_rate", VInt(95)),
      OneField("custom", "b", VInt(3)),
      DocListSection, DocCustomPairsThenOther }

\* Texts of environment variables: <<name, text>>.
EnvPairs ==
    { <<"PATH", "/usr/bin">>,
      <<"API_TIMEOUT", "30">>, <<"API_TIMEOUT", "">>, <<"API_TIMEOUT", "abc">>,
      <<"API_TIMEOUT", "-5">>, <<"API_TIMEOUT", " 4_0 ">>,
      <<"API_MAX_RETRIES", "5">>, <<"API_BASE_URL", "http://localhost:8000">>,
      <<"DB_TYPE", "oracle">>, <<"DB_TYPE", "mysql">>,
      <<"DB_HOST", "db.example">>, <<"DB_PORT", "3306">>, <<"DB_PORT", "33.06">>,
      <<"DB_NAME", "app">>, <<"DB_USER", "tester">>, <<"DB_PASSWORD", "secret">>,
      <<"BROWSER_HEADLESS", "True">>, <<"BROWSER_HEADLESS", "0">>,
      <<"BROWSER_HEADLESS", "">>, <<"DB_HOST", "">>,
      <<"BROWSER_TIMEOUT", "0">>, <<"BROWSER_TIMEOUT", "5000">>,
      <<"BROWSER_VIEWPORT_WIDTH", "800">>, <<"BROWSER_VIEWPORT_HEIGHT", "600">>,
      <<"BROWSER_TYPE", "firefox">>, <<"BROWSER_TYPE", "opera">> }

NoEnviron == [k \in {} |-> ""]

\* The environments that set at most n of the variables.
RECURSIVE EnvironsUpTo(_)
EnvironsUpTo(n) ==
    IF n = 0
    THEN {NoEnviron}
    ELSE LET smaller == EnvironsUpTo(n - 1)
         IN smaller \cup
            {e @@ (p[1] :> p[2]) : <<e, p>> \in
               {<<e, p>> \in smaller \X EnvPairs : p[1] \notin DOMAIN e}}

NoEnvFile == [exists |-> FALSE, pairs |-> NoEnviron]

\* A base file and an environment file of the default environment, with
\* the process environment.
InitLayers ==
    /\ \E b \in {Absent, Unparseable} \cup {Parsed(d) : d \in LayerDocs},
          e \in {Absent} \cup {Parsed(d) : d \in EnvLayerDocs} :
         files = FilesOf((BaseJson :> b) @@ (EnvJson("test") :> e))
    /\ environ \in EnvironsUpTo(MaxEnvVars)
    /\ env_file = NoEnvFile
    /\ yaml_available = TRUE
    /\ dotenv_available = TRUE

Start ==
    /\ config_manager = <<>>
    /\ last = NoCall
    /\ calls = 0
    /\ verify_pc = "idle"
    /\ verify_manager = <<>>
    /\ retry = NoWrapper
    /\ tester = PerformanceTesterInit
    /\ downloader = FileDownloaderInit(3)

InitLoad == InitLayers /\ Start

\* A few of these inputs, for the runs that go on after the load.
Init ==
    /\ \E b \in {Absent, Parsed(OneField("api", "timeout", VInt(10))),
                 Parsed(DocTwoViolations), Parsed(DocCustom)} :
         files = FilesOf(BaseJson :> b)
    /\ environ \in {NoEnviron, "API_TIMEOUT" :> "30"}
    /\ env_file = NoEnvFile
    /\ yaml_available \in BOOLEAN
    /\ dotenv_available = TRUE
    /\ Start

(***************************************************************************)
(* The operations.                                                         *)
(***************************************************************************)
\* get_config_manager() assigning the manager before the constructor's
\* validation has passed.
GetManagerKeepsFailed(op) ==
    /\ IF config_manager = <<>>
       THEN \E r \in {ConfigManagerInit(files, environ, env_file,
                                        yaml_available, dotenv_available)} :
               /\ environ' = r.environ
               /\ config_manager' = <<r.manager>>
               /\ last' = Call(op, "", "", VNone, r.exc, r.log)
       ELSE /\ UNCHANGED <<environ, config_manager>>
            /\ last' = Call(op, "", "", VNone, NoExc, <<>>)
    /\ UNCHANGED <<utils, files, env_file, yaml_available, dotenv_available, calls>>

\* get_config_manager(), called as op: constructs the manager when the
\* module holds none, and assigns it when the constructor returned.
GetManager(op) ==
    /\ IF config_manager = <<>>
       THEN \E r \in {ConfigManagerInit(files, environ, env_file,
                                        yaml_available, dotenv_available)} :
               /\ environ' = r.environ
               /\ config_manager' = IF r.exc = NoExc THEN <<r.manager>> ELSE <<>>
               /\ last' = Call(op, "", "", VNone, r.exc, r.log)
       ELSE /\ UNCHANGED <<environ, config_manager>>
            /\ last' = Call(op, "", "", VNone, NoExc, <<>>)
    /\ UNCHANGED <<utils, files, env_file, yaml_available, dotenv_available, calls>>

GetConfigManager ==
    /\ verify_pc = "idle"
    /\ GetManager("get_config_manager")
    /\ UNCHANGED <<verify_pc, verify_manager>>

\* get_config(): get_config_manager().config
GetConfig ==
    /\ verify_pc = "idle"
    /\ GetManager("get_config")
    /\ UNCHANGED <<verify_pc, verify_manager>>

\* The arguments update_config is called with.
UpdateArgs ==
    { <<"database", "nonexistent_field", VInt(5)>>,
      <<"database", "__doc__", VInt(5)>>,
      <<"database", "__class__", VInt(5)>>,
      <<"database", "type", VStr("oracle")>>,
      <<"api", "timeout", VInt(-1)>>,
      <<"api", "timeout", VInt(60)>>,
      <<"api", "nonexistent_field", VInt(5)>>,
      <<"browser", "headless", VBool(FALSE)>>,
      <<"browser", "custom", VInt(5)>>,
      <<"report", "environment", VStr("prod")>>,
      <<"performance", "min_success_rate", VInt(150)>>,
      <<"performance", "type", VStr("oracle")>>,
      <<"custom", "anything", VInt(5)>>,
      <<"custom", "anything", VInt(6)>>,
      <<"custom", "timeout", VInt(5)>>,
      <<"custom", "a", VInt(9)>>,
      <<"environment", "environment", VStr("prod")>>,
      <<"logging", "level", VStr("debug")>>,
      <<"", "timeout", VInt(5)>>,
      <<"Database", "host", VStr("db.example")>> }

\* get_config_manager().update_config(section, key, value), the arguments
\* taken from args.
UpdateWith(args) ==
    /\ verify_pc = "idle"
    /\ config_manager # <<>>
    /\ calls < MaxCalls
    /\ \E a \in args :
         LET r == UpdateConfigResult(config_manager[1].config, a[1], a[2], a[3])
         IN /\ config_manager' = <<[config_manager[1] EXCEPT !.config = r.cfg]>>
            /\ last' = Call("update_config", a[1], a[2], a[3], r.exc,
                            IF r.exc = NoExc
                            THEN <<LogEntry("info", "config updated", NoPath)>>
                            ELSE <<>>)
    /\ calls' = calls + 1
    /\ UNCHANGED <<utils, files, env_file, environ, yaml_available, dotenv_available,
                   verify_pc, verify_manager>>

UpdateConfig == UpdateWith(UpdateArgs)

\* The arguments of the runs that save: a valid and an invalid value, a
\* field a variable overrides, the field save_config leaves out, an
\* attribute that is no field, custom keys, a tuple.
SaveUpdateArgs ==
    { <<"api", "timeout", VInt(60)>>,
      <<"api", "timeout", VInt(-1)>>,
      <<"database", "host", VStr("db.example")>>,
      <<"database", "password", VStr("secret")>>,
      <<"database", "__doc__", VInt(5)>>,
      <<"custom", "anything", VInt(5)>>,
      <<"custom", "pair", VTuple(2, "(1, 2)")>> }

UpdateConfigBeforeSave == UpdateWith(SaveUpdateArgs)

\* The paths save_config is called with.
SaveTargets ==
    { NoTarget, Path(ConfigDir, "config", ".json"), Path(ConfigDir, "config", ".yaml"),
      Path(ConfigDir, "config", ".txt") }

\* get_config_manager().save_config(config_file)
SaveConfig ==
    /\ verify_pc = "idle"
    /\ config_manager # <<>>
    /\ calls < MaxCalls
    /\ \E target \in SaveTargets :
         LET r == SaveConfigResult(config_manager[1], files, target, yaml_available)
         IN /\ files' = r.files
            /\ last' = [Call("save_config", "", "", VNone, NoExc,
                             <<LogEntry("info", "config saved", r.path)>>)
                          EXCEPT !.target = target]
    /\ calls' = calls + 1
    /\ UNCHANGED <<utils, env_file, environ, yaml_available, dotenv_available,
                   config_manager, verify_pc, verify_manager>>

\* get_config_manager().config and the five typed accessors.
Access ==
    /\ verify_pc = "idle"
    /\ config_manager # <<>>
    /\ \E accessor \in {"config"} \cup DOMAIN AccessorSection :
         \E r \in {AccessorResult(config_manager[1].config, accessor)} :
            /\ config_manager' = <<[config_manager[1] EXCEPT !.config = r.cfg]>>
            /\ last' = [Call(accessor, "", "", VNone, NoExc, <<>>)
                          EXCEPT !.returned = r.value]
    /\ UNCHANGED <<utils, files, env_file, environ, yaml_available, dotenv_available, calls,
                   verify_pc, verify_manager>>

\* The arguments get_custom_config is called with: <<key, default>>.
CustomQueries ==
    {"a", "anything", "missing"} \X {VNone, VInt(7)}

\* get_config_manager().get_custom_config(key, default)
AccessCustom ==
    /\ verify_pc = "idle"
    /\ config_manager # <<>>
    /\ \E q \in CustomQueries :
         \E r \in {GetCustomConfigResult(config_manager[1].config, q[1], q[2])} :
            /\ config_manager' = <<[config_manager[1] EXCEPT !.config = r.cfg]>>
            /\ last' = [Call("get_custom_config", "", q[1], q[2], NoExc, <<>>)
                          EXCEPT !.returned = r.value]
    /\ UNCHANGED <<utils, files, env_file, environ, yaml_available, dotenv_available, calls,
                   verify_pc, verify_manager>>

\* The inputs of the runs that save.
InitSave ==
    /\ \E b \in {Absent, Parsed(OneField("api", "timeout", VInt(10))), Parsed(DocCustom)} :
         files = FilesOf(BaseJson :> b)
    /\ environ \in {NoEnviron, "API_TIMEOUT" :> "30", "DB_PASSWORD" :> "secret"}
    /\ env_file = NoEnvFile
    /\ yaml_available \in BOOLEAN
    /\ dotenv_available = TRUE
    /\ Start

(***************************************************************************)
(* verify_config_system of src/scripts/verify_improvements.py: it          *)
(* constructs a ConfigManager of its own, then calls get_config(), then    *)
(* looks at the tree and returns; an exception ends it.                    *)
(***************************************************************************)
\* config_manager = ConfigManager()
VerifyCreate ==
    /\ verify_pc = "idle"
    /\ \E r \in {ConfigManagerInit(files, environ, env_file, yaml_available,
                                    dotenv_available)} :
          /\ environ' = r.environ
          /\ verify_manager' = IF r.exc = NoExc THEN <<r.manager>> ELSE <<>>
          /\ verify_pc' = IF r.exc = NoExc THEN "created" ELSE "idle"
          /\ last' = Call("ConfigManager", "", "", VNone, r.exc, r.log)
    /\ UNCHANGED <<utils, files, env_file, yaml_available, dotenv_available, config_manager, calls>>

\* config = get_config()
VerifyGetConfig ==
    /\ verify_pc = "created"
    /\ GetManager("get_config")
    /\ verify_pc' = IF last'.exc = NoExc THEN "got" ELSE "idle"
    /\ verify_manager' = IF last'.exc = NoExc THEN verify_manager ELSE <<>>

\* The hasattr checks, and the return.
VerifyReturn ==
    /\ verify_pc = "got"
    /\ verify_pc' = "idle"
    /\ verify_manager' = <<>>
    /\ UNCHANGED <<utils, files, env_file, environ, yaml_available, dotenv_available,
                   config_manager, last, calls>>

(***************************************************************************)
(* The inputs of the runs that probe: the three candidates of the base     *)
(* layer, candidates of the environments test and prod, an                 *)
(* environment-variable file, with and without PyYAML and python-dotenv.   *)
(***************************************************************************)
HostDoc(host) == OneField("database", "host", VStr(host))

BaseYaml == Path(ConfigDir, "config", ".yaml")

BaseYml == Path(ConfigDir, "config", ".yml")

EnvYaml(environment) == Path(ConfigDir, "config." \o environment, ".yaml")

EnvFileOf(pairs) == [exists |-> TRUE, pairs |-> pairs]

ProbeEnvLayers ==
    { EmptyDict,
      (EnvYaml("prod") :> Parsed(OneField("api", "timeout", VInt(40))))
        @@ (EnvJson("prod") :> Parsed(OneField("api", "timeout", VInt(50)))),
      (EnvJson("test") :> Parsed(OneField("api", "timeout", VInt(20))))
        @@ (EnvJson("prod") :> Parsed(OneField("api", "timeout", VInt(50)))) }

ProbeEnvFiles ==
    { EnvFileOf("TEST_ENV" :> "prod"),
      EnvFileOf(("TEST_ENV" :> "prod") @@ ("API_TIMEOUT" :> "45")),
      EnvFileOf("DB_HOST" :> "file.example") }

ProbeEnvirons ==
    { NoEnviron, "TEST_ENV" :> "", "TEST_ENV" :> "test", "API_TIMEOUT" :> "30",
      "API_TIMEOUT" :> "0" }

InitProbe ==
    /\ \E y \in {Absent, Unparseable, Parsed(HostDoc("yaml.example")), Parsed(DocListSection)},
          m \in {Absent, Parsed(HostDoc("yml.example"))},
          j \in {Absent, Parsed(OneField("database", "port", VInt(3306)))},
          e \in ProbeEnvLayers :
         files = FilesOf((BaseYaml :> y) @@ (BaseYml :> m) @@ (BaseJson :> j)) @@ e
    /\ environ \in ProbeEnvirons
    /\ \/ env_file = NoEnvFile /\ dotenv_available = TRUE
       \/ env_file \in ProbeEnvFiles /\ dotenv_available = TRUE
       \/ env_file = EnvFileOf(("TEST_ENV" :> "prod") @@ ("API_TIMEOUT" :> "45"))
          /\ dotenv_available = FALSE
    /\ yaml_available \in BOOLEAN
    /\ Start

NextProbe ==
    GetConfigManager \/ GetConfig \/ VerifyCreate \/ VerifyGetConfig \/ VerifyReturn

SpecProbe == InitProbe /\ [][NextProbe]_vars

(***************************************************************************)
(* The runs of the retry decorators: a decorated function is called, the   *)
(* function it wraps does one thing or another at each call, and the       *)
(* wrapper ends.                                                           *)
(***************************************************************************)
\* The most retries a decorator is given.
MaxRetries == 2

\* The tuples given as exceptions: the default, that of
\* network_dependent_test, and one class.
ExceptionTuples ==
    { {"Exception"}, {"ConnectionError", "TimeoutError", "OSError"}, {"ValueError"} }

StatusCodeTuples == { {500, 502, 503, 504}, {503} }

\* What the wrapped function does at a call.
FuncOutcomes ==
    { Returns(1), Response(200), Response(404), Response(500), Response(503),
      Raises("ConnectionError"), Raises("RequestException"), Raises("ValueError"),
      Raises("AssertionError"), Raises("KeyboardInterrupt") }

\* A function decorated with retry_on_failure(...) is called.
RetryOnFailureEnter ==
    /\ retry.pc = "idle"
    /\ \E m \in 0..MaxRetries, skip \in BOOLEAN, e \in ExceptionTuples :
         retry' = Wrapper("retry_on_failure", m, skip, e, {})
    /\ UNCHANGED <<config_vars, tester, downloader>>

\* A function decorated with retry_on_http_error(...) is called.
RetryOnHttpErrorEnter ==
    /\ retry.pc = "idle"
    /\ \E m \in 0..MaxRetries, skip \in BOOLEAN, codes \in StatusCodeTuples :
         retry' = Wrapper("retry_on_http_error", m, skip, {}, codes)
    /\ UNCHANGED <<config_vars, tester, downloader>>

RetryOnFailureIteration ==
    /\ retry.pc = "loop"
    /\ retry.decorator = "retry_on_failure"
    /\ \E o \in FuncOutcomes : retry' = RetryOnFailureCall(retry, o)
    /\ UNCHANGED <<config_vars, tester, downloader>>

RetryOnHttpErrorIteration ==
    /\ retry.pc = "loop"
    /\ retry.decorator = "retry_on_http_error"
    /\ \E o \in FuncOutcomes : retry' = RetryOnHttpErrorCall(retry, o)
    /\ UNCHANGED <<config_vars, tester, downloader>>

\* The caller has the wrapper's result.
WrapperLeft ==
    /\ retry.pc = "done"
    /\ retry' = NoWrapper
    /\ UNCHANGED <<config_vars, tester, downloader>>

\* The configuration side of the runs of the utilities: nothing is loaded.
InitUtilities ==
    /\ files = FilesOf(BaseJson :> Absent)
    /\ environ = NoEnviron
    /\ env_file = NoEnvFile
    /\ yaml_available = TRUE
    /\ dotenv_available = TRUE
    /\ Start

NextRetry ==
    \/ RetryOnFailureEnter
    \/ RetryOnHttpErrorEnter
    \/ RetryOnFailureIteration
    \/ RetryOnHttpErrorIteration
    \/ WrapperLeft

SpecRetry == InitUtilities /\ [][NextRetry]_vars

(***************************************************************************)
(* The runs of a PerformanceTester: load_test calls and stress_test calls  *)
(* stage by stage, on one tester or on a new one.                          *)
(***************************************************************************)
\* The most runs of one tester.
MaxRuns == 3

\* The most concurrent users and requests per user of a run.
MaxUsers == 2

\* tester = PerformanceTester(base_url)
NewPerformanceTester ==
    /\ tester.pc = "idle"
    /\ tester.runs # <<>>
    /\ tester' = PerformanceTesterInit
    /\ UNCHANGED <<config_vars, retry, downloader>>

\* metrics = await tester.load_test(method, endpoint, users, requests_per_user)
LoadTest ==
    /\ tester.pc = "idle"
    /\ Len(tester.runs) < MaxRuns
    /\ \E users \in 1..MaxUsers, requests_per_user \in 1..MaxUsers :
         \E ok \in 0..(users * requests_per_user) :
            \E t \in {RunConcurrentRequests(tester, Run(users, requests_per_user, ok))} :
               tester' = [t EXCEPT !.returned = <<t.metrics>>, !.results = <<>>]
    /\ UNCHANGED <<config_vars, retry, downloader>>

\* await tester.stress_test(method, endpoint, max_users, step_size,
\* step_duration): results = [], and the first value of the range.
StressTestEnter ==
    /\ tester.pc = "idle"
    /\ Len(tester.runs) < MaxRuns
    /\ \E max_users \in 1..MaxUsers, step_duration \in {0, 4} :
         tester' = [tester EXCEPT !.pc = "stress", !.users = 1, !.step_size = 1,
                                  !.max_users = max_users,
                                  !.step_duration = step_duration,
                                  !.results = <<>>, !.returned = <<>>]
    /\ UNCHANGED <<config_vars, retry, downloader>>

\* One stage of stress_test: the run, results.append(metrics), and the
\* break when the success rate is below 95.
StressTestStage ==
    /\ tester.pc = "stress"
    /\ tester.users <= tester.max_users
    /\ Len(tester.runs) < MaxRuns
    /\ \E ok \in 0..(tester.users * StageRequestsPerUser(tester.step_duration)) :
         \E t \in {RunConcurrentRequests(
                      tester, Run(tester.users,
                                  StageRequestsPerUser(tester.step_duration), ok))} :
            tester' = [t EXCEPT !.results = Append(@, t.metrics),
                                !.users = IF SuccessRateBelow95(t.heap[t.metrics])
                                          THEN t.max_users + 1
                                          ELSE @ + t.step_size]
    /\ UNCHANGED <<config_vars, retry, downloader>>

\* return results
StressTestReturn ==
    /\ tester.pc = "stress"
    /\ tester.users > tester.max_users
    /\ tester' = [tester EXCEPT !.pc = "idle", !.returned = tester.results]
    /\ UNCHANGED <<config_vars, retry, downloader>>

NextTester ==
    \/ NewPerformanceTester
    \/ LoadTest
    \/ StressTestEnter
    \/ StressTestStage
    \/ StressTestReturn

SpecTester == InitUtilities /\ [][NextTester]_vars

(***************************************************************************)
(* The runs of a FileDownloader: it is constructed, download_single_file   *)
(* is called with one URL and file name after another, and get_statistics  *)
(* is called.                                                              *)
(***************************************************************************)
\* The most download_single_file calls on one downloader.
MaxDownloads == 3

\* The most attempts a downloader is given as max_retries.
MaxAttempts == 3

Urls == {"", " ", "http://files.example/a.pdf", " http://files.example/b.pdf"}

Filenames == {"a.pdf", "b.pdf"}

RequestOutcomes == {"ok", "request_exception", "exception"}

\* downloader = FileDownloader(save_dir, max_retries=n): the files of
\* save_dir stay.
NewFileDownloader ==
    /\ \E n \in 0..MaxAttempts :
         downloader' = [FileDownloaderInit(n) EXCEPT !.existing = downloader.existing]
    /\ UNCHANGED <<config_vars, retry, tester>>

\* downloader.download_single_file(url, filename)
DownloadSingleFileCall ==
    /\ downloader.downloads < MaxDownloads
    /\ \E url \in Urls, filename \in Filenames :
         \E outcomes \in [1..MaxAttempts -> RequestOutcomes] :
            downloader' = DownloadSingleFile(downloader, url, filename, outcomes)
    /\ UNCHANGED <<config_vars, retry, tester>>

\* downloader.get_statistics()
GetStatisticsCall ==
    /\ downloader' = [downloader EXCEPT !.statistics = GetStatistics(downloader)]
    /\ UNCHANGED <<config_vars, retry, tester>>

NextDownloader == NewFileDownloader \/ DownloadSingleFileCall \/ GetStatisticsCall

SpecDownloader == InitUtilities /\ [][NextDownloader]_vars

NextSave ==
    \/ GetConfigManager
    \/ GetConfig
    \/ UpdateConfigBeforeSave
    \/ SaveConfig
    \/ Access
    \/ AccessCustom

SpecSave == InitSave /\ [][NextSave]_vars

NextLoad == GetConfigManager \/ GetConfig

SpecLoad == InitLoad /\ [][NextLoad]_vars

Next == GetConfigManager \/ GetConfig \/ UpdateConfig

Spec == Init /\ [][Next]_vars

(***************************************************************************)
(* What the claims are stated with.                                        *)
(***************************************************************************)
GetOps == {"get_config_manager", "get_config"}

\* The call made last constructed the manager: the constructor's last log
\* line is that of a passed validation.
JustLoaded ==
    /\ last.op \in GetOps
    /\ config_manager # <<>>
    /\ last.log # <<>>
    /\ last.log[Len(last.log)].event = "config validated"

Tree == config_manager[1].config

\* The call made last ran the constructor: it raised, or it constructed.
Attempted == last.op \in GetOps /\ (config_manager = <<>> \/ JustLoaded)

\* The environment tag a load reads.
EnvTag == GetEnv(environ, "TEST_ENV", "test")

\* The tree the constructor assembles from the present sources.
AssembledTree ==
    ConfigManagerInit(files, environ, env_file, yaml_available, dotenv_available).manager.config

LoggedPaths(event) ==
    {last.log[i].path : i \in {j \in 1..Len(last.log) : last.log[j].event = event}}

\* The document the layer of these candidates contributed: that of the
\* candidate logged as loaded, as its parser returned it.
LayerData(paths) ==
    IF \E i \in 1..Len(paths) : paths[i] \in LoggedPaths("loaded")
    THEN LET p == paths[CHOOSE i \in 1..Len(paths) : paths[i] \in LoggedPaths("loaded")]
         IN IF p.suffix \in {".yaml", ".yml"} /\ ~yaml_available
            THEN EmptyDoc
            ELSE files[p].data
    ELSE EmptyDoc

DocSets(data, section, key) ==
    /\ data.top = "dict"
    /\ section \in DOMAIN data.secs
    /\ data.secs[section].shape = "dict"
    /\ \E i \in 1..Len(data.secs[section].items) : data.secs[section].items[i].k = key

DocValue(data, section, key) ==
    LET items == data.secs[section].items
    IN items[CHOOSE i \in 1..Len(items) :
               /\ items[i].k = key
               /\ \A j \in 1..Len(items) : items[j].k = key => j <= i].v

OverridesOf(section, key) ==
    {EnvOverrides[i] : i \in {j \in 1..Len(EnvOverrides) :
        EnvOverrides[j].section = section /\ EnvOverrides[j].key = key}}

\* The value the layers give a field: the variable's, else the
\* environment file's, else the base file's, else the default.
Resolved(section, key) ==
    IF \E o \in OverridesOf(section, key) : EnvTruthy(environ, o.var)
    THEN LET o == CHOOSE o \in OverridesOf(section, key) : EnvTruthy(environ, o.var)
         IN CASE o.conv = "int" -> VInt(ParseInt(environ[o.var]).n)
              [] o.conv = "lower_is_true" -> VBool(Lower(environ[o.var]) = "true")
              [] OTHER -> VStr(environ[o.var])
    ELSE IF DocSets(LayerData(EnvCandidates(EnvTag)), section, key)
    THEN DocValue(LayerData(EnvCandidates(EnvTag)), section, key)
    ELSE IF DocSets(LayerData(BaseCandidates), section, key)
    THEN DocValue(LayerData(BaseCandidates), section, key)
    ELSE TestConfig[section][key]

(***************************************************************************)
(* C1  Layer precedence.  After a load in which no candidate file failed,  *)
(* every field of the five fixed sections has the value of its             *)
(* environment variable if that is set (to a non-empty text), otherwise    *)
(* the value the merged environment file gives it, otherwise the value    *)
(* the merged base file gives it, otherwise its default.                   *)
(***************************************************************************)
C1_LayerPrecedence ==
    (JustLoaded /\ LoggedPaths("failed") = {})
    => \A section \in FixedSectionSet : \A key \in DeclaredFields(section) :
         Tree[section][key] = Resolved(section, key)

\* base file 10, environment file 20, variable 30: resolved 30.
C1_Witness ==
    /\ JustLoaded
    /\ BaseJson \in DOMAIN files
    /\ files[BaseJson] = Parsed(OneField("api", "timeout", VInt(10)))
    /\ EnvJson("test") \in DOMAIN files
    /\ files[EnvJson("test")] = Parsed(OneField("api", "timeout", VInt(20)))
    /\ environ = ("API_TIMEOUT" :> "30")
    /\ Tree.api.timeout = VInt(30)

(***************************************************************************)
(* C2  Default completeness.  With no configuration file, no environment   *)
(* file and none of the recognised variables set, get_config_manager       *)
(* succeeds and the tree holds exactly the hard-coded defaults.            *)
(***************************************************************************)
RecognisedVars == {EnvOverrides[i].var : i \in 1..Len(EnvOverrides)} \cup {"TEST_ENV"}

NoSources ==
    /\ DOMAIN files = {}
    /\ ~env_file.exists
    /\ DOMAIN environ \cap RecognisedVars = {}

HardCodedDefaults ==
    [environment |-> "test",
     database |->
       [type |-> VStr("sqlite"), host |-> VStr("localhost"), port |-> VInt(5432),
        database |-> VStr("test_db"), username |-> VStr(""), password |-> VStr(""),
        connection_pool_size |-> VInt(10), timeout |-> VInt(30)],
     api |->
       [base_url |-> VStr("https://httpbin.org"), timeout |-> VInt(30),
        max_retries |-> VInt(3), retry_delay |-> VFloat(1),
        verify_ssl |-> VBool(TRUE), headers |-> VDict(0, "{}")],
     browser |->
       [headless |-> VBool(TRUE), timeout |-> VInt(30000),
        viewport_width |-> VInt(1920), viewport_height |-> VInt(1080),
        browser_type |-> VStr("chromium"), slow_mo |-> VInt(0),
        devtools |-> VBool(FALSE),
        args |-> VList(4, "--no-sandbox --disable-dev-shm-usage --disable-gpu --disable-web-security")],
     report |->
       [allure_results_dir |-> VStr("results/allure-results"),
        html_report_path |-> VStr("results/report.html"),
        screenshot_dir |-> VStr("screenshots"), video_dir |-> VStr("videos"),
        generate_allure |-> VBool(TRUE), generate_html |-> VBool(TRUE),
        capture_screenshots |-> VBool(TRUE), capture_videos |-> VBool(FALSE)],
     performance |->
       [default_concurrent_users |-> VInt(10), default_requests_per_user |-> VInt(10),
        max_response_time_ms |-> VFloat(5000), min_success_rate |-> VFloat(95),
        ramp_up_time |-> VInt(0), results_dir |-> VStr("performance_results")],
     custom |-> EmptyDict]

C2_DefaultCompleteness ==
    (last.op \in GetOps /\ NoSources)
    => /\ last.exc = NoExc
       /\ config_manager = <<[config |-> HardCodedDefaults, environment |-> "test"]>>

C2_Witness ==
    /\ last.op = "get_config_manager"
    /\ NoSources
    /\ "PATH" \in DOMAIN environ
    /\ config_manager # <<>>
    /\ Tree.database.type = VStr("sqlite")

(***************************************************************************)
(* The invariants of the data model, as the specification states them: a   *)
(* value that is no number is not greater than 0 and not within 0..100.    *)
(***************************************************************************)
IsNumber(v) == v.t \in {"int", "float", "bool"}

\* The lines of the six invariants a tree violates.
ViolatedSix(cfg) ==
    (IF cfg.database.type \in {VStr("sqlite"), VStr("mysql"), VStr("postgresql"), VStr("mongodb")}
     THEN {} ELSE {"unsupported database type"})
    \cup (IF cfg.browser.browser_type \in {VStr("chromium"), VStr("firefox"), VStr("webkit")}
          THEN {} ELSE {"unsupported browser type"})
    \cup (IF IsNumber(cfg.api.timeout) /\ cfg.api.timeout.n > 0
          THEN {} ELSE {"API timeout must be greater than 0"})
    \cup (IF IsNumber(cfg.browser.timeout) /\ cfg.browser.timeout.n > 0
          THEN {} ELSE {"browser timeout must be greater than 0"})
    \cup (IF IsNumber(cfg.performance.default_concurrent_users)
             /\ cfg.performance.default_concurrent_users.n > 0
          THEN {} ELSE {"concurrent users must be greater than 0"})
    \cup (IF IsNumber(cfg.performance.min_success_rate)
             /\ cfg.performance.min_success_rate.n >= 0
             /\ cfg.performance.min_success_rate.n <= 100
          THEN {} ELSE {"min success rate must be within 0-100"})

\* With the seventh check of the code: api.base_url is not empty.
ViolatedSeven(cfg) ==
    ViolatedSix(cfg)
    \cup (IF Truthy(cfg.api.base_url) THEN {} ELSE {"API base_url must not be empty"})

IsValidationError(exc) == exc.type = "ValueError" /\ exc.msg = "config validation failed"

Lines(exc) == {exc.lines[i] : i \in 1..Len(exc.lines)}

\* The load gets to the end of _validate_config: every numeric variable
\* that is set parses as an integer and the four compared fields are numbers.
IntVarsParse ==
    \A i \in 1..Len(EnvOverrides) :
       (EnvOverrides[i].conv = "int" /\ EnvTruthy(environ, EnvOverrides[i].var))
       => ParseInt(environ[EnvOverrides[i].var]).ok

ReachesEndOfValidation ==
    /\ IntVarsParse
    /\ \A v \in {AssembledTree.api.timeout, AssembledTree.browser.timeout,
                 AssembledTree.performance.default_concurrent_users,
                 AssembledTree.performance.min_success_rate} : IsNumber(v)

(***************************************************************************)
(* C3  Validation aggregation.  When the tree a load assembles violates    *)
(* one or more of the invariants, the load fails with the validation       *)
(* error and its message has a line for every violated invariant.          *)
(***************************************************************************)
C3_ValidationAggregation ==
    (Attempted /\ ViolatedSix(AssembledTree) # {})
    => /\ IsValidationError(last.exc)
       /\ ViolatedSix(AssembledTree) \subseteq Lines(last.exc)

C5_NoInvalidTreeExposed ==
    /\ config_manager # <<>>
         => /\ ViolatedSeven(Tree) = {}
            /\ ValidateConfig(Tree).exc = NoExc
    /\ (last.op \in GetOps /\ last.exc # NoExc) => config_manager = <<>>
    /\ (last.op \in GetOps /\ config_manager = <<>>)
         => /\ last.exc # NoExc
            /\ last.exc = ConfigManagerInit(files, environ, env_file,
                                            yaml_available, dotenv_available).exc

\* A load failed its validation and the module holds no manager.
C5_Witness ==
    /\ last.op \in GetOps
    /\ IsValidationError(last.exc)
    /\ Len(last.exc.lines) = 2
    /\ config_manager = <<>>

(***************************************************************************)
(* C6  Only the validation error leaves a load.  Every get_config_manager  *)
(* call returns a manager or raises the validation error.                  *)
(***************************************************************************)
C6_OnlyValidationErrorPropagates ==
    last.op \in GetOps
    => \/ last.exc = NoExc /\ config_manager # <<>>
       \/ IsValidationError(last.exc)

(***************************************************************************)
(* C7  Validation is applied once, to the merged tree.  After a load in    *)
(* which no candidate file failed, the outcome is decided by the values    *)
(* the layers resolve to, whatever an earlier layer held: the validation   *)
(* error has no line for a check the resolved value passes; the load       *)
(* returns when every resolved value passes (and the numeric variables     *)
(* parse); the load fails when a resolved value fails its check.           *)
(***************************************************************************)
\* The five fixed sections with every field at the value the layers resolve.
ResolvedTree == [s \in FixedSectionSet |-> [k \in DeclaredFields(s) |-> Resolved(s, k)]]

C7_ValidatedOnceAfterMerge ==
    (Attempted /\ LoggedPaths("failed") = {})
    => /\ IsValidationError(last.exc) => Lines(last.exc) \subseteq ViolatedSeven(ResolvedTree)
       /\ (ViolatedSeven(ResolvedTree) = {} /\ IntVarsParse) => last.exc = NoExc
       /\ ViolatedSeven(ResolvedTree) # {} => last.exc # NoExc

\* The base file's api.timeout fails the check, the environment file's
\* passes it, and the load returns.
C7_Witness ==
    /\ JustLoaded
    /\ BaseJson \in DOMAIN files
    /\ files[BaseJson] = Parsed(OneField("api", "timeout", VInt(-1)))
    /\ EnvJson("test") \in DOMAIN files
    /\ files[EnvJson("test")] = Parsed(OneField("api", "timeout", VInt(20)))
    /\ Tree.api.timeout = VInt(20)

(***************************************************************************)
(* C8  Unknown-key tolerance.  A parsed file whose known sections are      *)
(* mappings raises no error when merged, whatever keys they hold, and a    *)
(* field that no file names and no variable overrides keeps its default.   *)
(***************************************************************************)
KnownSections == FixedSectionSet \cup {"custom"}

SectionsAreMappings(content) ==
    /\ content.kind = "parsed"
    /\ content.data.top = "dict"
    /\ \A sec \in DOMAIN content.data.secs \cap KnownSections :
         content.data.secs[sec].shape = "dict"

C8_UnknownKeyTolerance ==
    Attempted
    => /\ \A p \in DOMAIN files :
            SectionsAreMappings(files[p]) => p \notin LoggedPaths("failed")
       /\ \A section \in FixedSectionSet : \A key \in DeclaredFields(section) :
            (/\ \A p \in DOMAIN files : ~DocSets(files[p].data, section, key)
             /\ \A o \in OverridesOf(section, key) : ~EnvTruthy(environ, o.var))
            => AssembledTree[section][key] = TestConfig[section][key]

(***************************************************************************)
(* C9  update_config rejects unknown keys.  A call that names one of the   *)
(* five fixed sections and a key that is no declared field of it raises    *)
(* the ValueError of an unknown target and leaves the manager as it was.   *)
(***************************************************************************)
UnknownTarget == Exc("ValueError", "unknown config section or key")

\* This step is an update_config call.
UpdateStep == last'.op = "update_config" /\ calls' = calls + 1

C9_UpdateRejectsUnknownKeys ==
    [][(/\ UpdateStep
        /\ last'.section \in FixedSectionSet
        /\ last'.key \notin DeclaredFields(last'.section))
       => /\ last'.exc = UnknownTarget
          /\ config_manager' = config_manager]_vars

(***************************************************************************)
(* C10  update_config rejects unknown sections.  A call whose section is   *)
(* none of database, api, browser, report, performance and custom raises   *)
(* the ValueError of an unknown target and changes nothing; and in every   *)
(* state, also after such a call, a call that names a declared field of a  *)
(* fixed section returns and sets that field.                              *)
(***************************************************************************)
C10_UpdateRejectsUnknownSections ==
    [][UpdateStep
       => /\ last'.section \notin KnownSections
               => /\ last'.exc = UnknownTarget
                  /\ UNCHANGED <<config_manager, files, env_file, environ>>
          /\ (/\ last'.section \in FixedSectionSet
              /\ last'.key \in DeclaredFields(last'.section))
               => /\ last'.exc = NoExc
                  /\ config_manager'[1].config[last'.section][last'.key] = last'.value]_vars

\* update_config("environment", "environment", "prod") was refused.
C10_Witness ==
    /\ last.op = "update_config"
    /\ last.section = "environment"
    /\ last.exc = UnknownTarget
    /\ config_manager # <<>>
    /\ Tree.environment = "test"
    /\ calls = 2

(***************************************************************************)
(* C11  update_config on the custom section always succeeds.  Whatever    *)
(* the key, present in custom or not, the call returns; afterwards         *)
(* custom[key] is the value (and get_custom_config gives it), every other  *)
(* key of custom is as before, no key but this one was added, and the      *)
(* five fixed sections are as before.                                      *)
(***************************************************************************)
C11_CustomUpdateAlwaysSucceeds ==
    [][(UpdateStep /\ last'.section = "custom")
       => LET before == config_manager[1].config
              after == config_manager'[1].config
          IN /\ last'.exc = NoExc
             /\ DOMAIN after.custom = DOMAIN before.custom \cup {last'.key}
             /\ after.custom[last'.key] = last'.value
             /\ GetCustomConfig(after, last'.key, VNone) = last'.value
             /\ \A k \in DOMAIN before.custom \ {last'.key} :
                  after.custom[k] = before.custom[k]
             /\ \A section \in FixedSectionSet : after[section] = before[section]
             /\ after.environment = before.environment]_vars

\* custom came from the file with the keys a and b; update_config set the
\* key a, which was there, and b is as the file gave it.
C11_Witness ==
    /\ last.op = "update_config"
    /\ last.section = "custom"
    /\ last.key = "a"
    /\ last.exc = NoExc
    /\ config_manager # <<>>
    /\ DOMAIN Tree.custom = {"a", "b"}
    /\ Tree.custom["a"] = VInt(9)
    /\ Tree.custom["b"] = VInt(2)

(***************************************************************************)
(* C12  update_config does not validate.  On a declared field of a fixed   *)
(* section the call returns whatever the value is, and changes that field  *)
(* and nothing else; so a tree can come to violate the invariants after    *)
(* update_config calls, while a manager that no update_config call has     *)
(* touched holds a tree that violates none.                                *)
(***************************************************************************)
C12_UpdateDoesNotValidate ==
    [][/\ (/\ UpdateStep
           /\ last'.section \in FixedSectionSet
           /\ last'.key \in DeclaredFields(last'.section))
          => /\ last'.exc = NoExc
             /\ config_manager'[1].config =
                  [config_manager[1].config EXCEPT ![last'.section][last'.key] = last'.value]
             /\ config_manager'[1].environment = config_manager[1].environment
       /\ (calls' = 0 /\ config_manager' # <<>>)
          => ViolatedSix(config_manager'[1].config) = {}]_vars

\* update_config("api", "timeout", -1) returned and the exposed tree
\* violates the invariant of api.timeout.
C12_Witness ==
    /\ last.op = "update_config"
    /\ last.section = "api"
    /\ last.key = "timeout"
    /\ last.value = VInt(-1)
    /\ last.exc = NoExc
    /\ config_manager # <<>>
    /\ Tree.api.timeout = VInt(-1)
    /\ "API timeout must be greater than 0" \in ViolatedSix(Tree)

(***************************************************************************)
(* C13  Round trip.  As claimed: after save_config wrote a base-config     *)
(* candidate, a fresh load that finds this file and no other, with the     *)
(* same environment, constructs a tree whose fixed sections and custom     *)
(* equal those of the saved tree, but for the fields save_config leaves    *)
(* out.                                                                    *)
(***************************************************************************)
BaseCandidateSet == {BaseCandidates[i] : i \in 1..Len(BaseCandidates)}

\* The path the save_config call made last wrote.
SavedPath == last.log[1].path

SavedToBaseCandidate ==
    /\ last.op = "save_config"
    /\ last.exc = NoExc
    /\ SavedPath \in BaseCandidateSet

\* The load of a fresh ConfigManager that finds the saved file alone.
FreshLoad ==
    ConfigManagerInit(SavedPath :> files[SavedPath], environ, env_file,
                      yaml_available, dotenv_available)

\* The fields save_config does not write.
NotSerialized == {<<"database", "password">>}

SameSections(a, b) ==
    /\ \A section \in FixedSectionSet : \A key \in DeclaredFields(section) :
         <<section, key>> \notin NotSerialized => a[section][key] = b[section][key]
    /\ a.custom = b.custom

C13_RoundTrip ==
    SavedToBaseCandidate
    => /\ FreshLoad.exc = NoExc
       /\ SameSections(FreshLoad.manager.config, Tree)

(***************************************************************************)
(* C13 as amended.  The round trip holds for the trees that pass           *)
(* validation, in which every field of a set variable still holds the      *)
(* variable's value, and whose values are the same when written and read   *)
(* back (no tuple).                                                        *)
(***************************************************************************)
OverriddenFieldsKept(cfg) ==
    \A i \in 1..Len(EnvOverrides) :
       EnvTruthy(environ, EnvOverrides[i].var)
       => /\ Coerce(EnvOverrides[i].conv, environ[EnvOverrides[i].var]).exc = NoExc
          /\ cfg[EnvOverrides[i].section][EnvOverrides[i].key]
               = Coerce(EnvOverrides[i].conv, environ[EnvOverrides[i].var]).v

NoTuple(cfg) ==
    /\ \A section \in FixedSectionSet : \A key \in DeclaredFields(section) :
         cfg[section][key].t # "tuple"
    /\ \A k \in DOMAIN cfg.custom : cfg.custom[k].t # "tuple"

C13_RoundTripOfValidTrees ==
    (/\ SavedToBaseCandidate
     /\ ViolatedSeven(Tree) = {}
     /\ OverriddenFieldsKept(Tree)
     /\ NoTuple(Tree))
    => /\ FreshLoad.exc = NoExc
       /\ SameSections(FreshLoad.manager.config, Tree)

\* A tree that update_config changed (api.timeout = 60, a custom key) was
\* saved as config.json and the fresh load gives it back.
C13_Witness ==
    /\ SavedToBaseCandidate
    /\ SavedPath = BaseJson
    /\ Tree.api.timeout = VInt(60)
    /\ ~EnvTruthy(environ, "API_TIMEOUT")
    /\ FreshLoad.exc = NoExc
    /\ FreshLoad.manager.config.api.timeout = VInt(60)
    /\ calls = 2

(***************************************************************************)
(* C14  Load idempotence.  Two loads one after the other, with nothing    *)
(* changed in between by the caller, give the same outcome: when           *)
(* verify_config_system has constructed its manager and get_config() then  *)
(* constructs the module's, the two managers hold equal trees and the      *)
(* second load leaves the process environment as the first left it; and a  *)
(* load that failed fails the same way when the next call repeats it.      *)
(***************************************************************************)
C14_LoadIdempotence ==
    [][/\ (verify_pc = "created" /\ config_manager = <<>> /\ verify_pc' # "created")
          => /\ last'.exc = NoExc
             /\ config_manager' = verify_manager
             /\ environ' = environ
       /\ (/\ last.op \in GetOps \cup {"ConfigManager"}
           /\ last.exc # NoExc
           /\ last'.op \in GetOps \cup {"ConfigManager"})
          => /\ last'.exc = last.exc
             /\ environ' = environ]_vars

\* The first load put TEST_ENV = prod of the environment-variable file into
\* the process environment; the second load, which found it there, built
\* the same tree.
C14_Witness ==
    /\ verify_pc = "got"
    /\ verify_manager # <<>>
    /\ config_manager = verify_manager
    /\ JustLoaded
    /\ env_file.exists
    /\ dotenv_available
    /\ "TEST_ENV" \in DOMAIN env_file.pairs
    /\ Tree.environment = "prod"
    /\ Tree.api.timeout = VInt(50)

(***************************************************************************)
(* C15  Process-wide singleton.  At no time does the process hold more     *)
(* than one manager with its tree: the module's, which get_config_manager  *)
(* and get_config give, and no second one.                                 *)
(***************************************************************************)
C15_ProcessWideSingleton == Len(config_manager) + Len(verify_manager) <= 1

(***************************************************************************)
(* C16  Candidate probing within a layer.  In each of the two file layers  *)
(* the candidates are tried in the order .yaml, .yml, .json: every         *)
(* existing candidate before the one that was merged was skipped with a    *)
(* warning, no candidate after it was consulted, an existing candidate is  *)
(* skipped only after it was tried, and at most one file of each layer     *)
(* has a value of its own in the tree.                                     *)
(***************************************************************************)
\* The candidates of the two layers of the load made last.
Layers == {BaseCandidates, EnvCandidates(EnvTag)}

Consulted == LoggedPaths("loaded") \cup LoggedPaths("failed")

ProbedInOrder(paths) ==
    /\ \A i \in 1..Len(paths) :
         paths[i] \in LoggedPaths("loaded")
         => /\ \A j \in 1..(i - 1) :
                 paths[j] \in DOMAIN files => paths[j] \in LoggedPaths("failed")
            /\ \A j \in (i + 1)..Len(paths) : paths[j] \notin Consulted
    /\ \A i \in 1..Len(paths) :
         (/\ paths[i] \in DOMAIN files
          /\ \A j \in 1..(i - 1) : paths[j] \notin LoggedPaths("loaded"))
         => paths[i] \in Consulted
    /\ \A i \in 1..Len(paths) : paths[i] \in Consulted => paths[i] \in DOMAIN files

\* The file at p gave the tree a value: a field it sets, that no variable
\* overrides, holds the file's value and not the default.
Contributes(p) ==
    /\ p \in DOMAIN files
    /\ files[p].kind = "parsed"
    /\ p.suffix \in {".yaml", ".yml"} => yaml_available
    /\ \E section \in FixedSectionSet : \E key \in DeclaredFields(section) :
         /\ DocSets(files[p].data, section, key)
         /\ \A o \in OverridesOf(section, key) : ~EnvTruthy(environ, o.var)
         /\ Tree[section][key] = DocValue(files[p].data, section, key)
         /\ Tree[section][key] # TestConfig[section][key]

C16_CandidateProbing ==
    Attempted
    => /\ \A paths \in Layers : ProbedInOrder(paths)
       /\ JustLoaded
          => \A paths \in Layers :
               Cardinality({i \in 1..Len(paths) : Contributes(paths[i])}) <= 1

(***************************************************************************)
(* C17  A missing parser is a skip.  Without the YAML parser a .yaml or    *)
(* .yml candidate contributes nothing and does not end the probing of its  *)
(* layer: the .json candidate of the layer, when it exists and parses, is  *)
(* the one that is merged, and its values are in the tree.                 *)
(***************************************************************************)
JsonOf(paths) == paths[Len(paths)]

C17_MissingParserIsSkip ==
    (Attempted /\ ~yaml_available)
    => /\ \A paths \in Layers :
            (JsonOf(paths) \in DOMAIN files /\ files[JsonOf(paths)].kind = "parsed")
            => JsonOf(paths) \in LoggedPaths("loaded")
       /\ (/\ JustLoaded
           /\ BaseJson \in DOMAIN files
           /\ DocSets(files[BaseJson].data, "database", "port")
           /\ ~EnvTruthy(environ, "DB_PORT"))
          => Tree.database.port = DocValue(files[BaseJson].data, "database", "port")

(***************************************************************************)
(* C18  Environment-variable override table.  Each of the fourteen         *)
(* recognised variables names one leaf field.  After a load, the field of  *)
(* every variable that is set (to a non-empty text) holds the variable's   *)
(* text converted to the field's type, whatever the files gave the field,  *)
(* and every other field, the environment name and the custom mapping are  *)
(* as the file layers left them.                                           *)
(***************************************************************************)
Entry(var, section, key, kind) ==
    [var |-> var, section |-> section, key |-> key, kind |-> kind]

OverrideTable ==
    { Entry("DB_TYPE", "database", "type", "text"),
      Entry("DB_HOST", "database", "host", "text"),
      Entry("DB_PORT", "database", "port", "integer"),
      Entry("DB_NAME", "database", "database", "text"),
      Entry("DB_USER", "database", "username", "text"),
      Entry("DB_PASSWORD", "database", "password", "text"),
      Entry("API_BASE_URL", "api", "base_url", "text"),
      Entry("API_TIMEOUT", "api", "timeout", "integer"),
      Entry("API_MAX_RETRIES", "api", "max_retries", "integer"),
      Entry("BROWSER_HEADLESS", "browser", "headless", "flag"),
      Entry("BROWSER_TIMEOUT", "browser", "timeout", "integer"),
      Entry("BROWSER_VIEWPORT_WIDTH", "browser", "viewport_width", "integer"),
      Entry("BROWSER_VIEWPORT_HEIGHT", "browser", "viewport_height", "integer"),
      Entry("BROWSER_TYPE", "browser", "browser_type", "text") }

\* The tree as the two file layers leave it, before the override step.
FileLayersTree ==
    LET cfg0 == [TestConfig EXCEPT !.environment = EnvTag]
        base == LoadBaseConfig(cfg0, <<>>, files, yaml_available)
    IN LoadEnvironmentConfig(base.cfg, <<>>, files, yaml_available, EnvTag).cfg

Coerced(kind, text) ==
    CASE kind = "integer" -> VInt(ParseInt(text).n)
      [] kind = "flag" -> VBool(Lower(text) = "true")
      [] OTHER -> VStr(text)

C18_OverrideTable ==
    /\ \A a \in OverrideTable : \A b \in OverrideTable :
         (a.var = b.var \/ (a.section = b.section /\ a.key = b.key)) => a = b
    /\ JustLoaded
       => /\ \A t \in OverrideTable :
               EnvTruthy(environ, t.var)
               => Tree[t.section][t.key] = Coerced(t.kind, environ[t.var])
          /\ \A section \in FixedSectionSet : \A key \in DeclaredFields(section) :
               (\A t \in OverrideTable :
                  (t.section = section /\ t.key = key) => ~EnvTruthy(environ, t.var))
               => Tree[section][key] = FileLayersTree[section][key]
          /\ Tree.environment = FileLayersTree.environment
          /\ Tree.custom = FileLayersTree.custom

\* DB_HOST is set and a file gave api.timeout a value of its own: the host
\* is the variable's, the timeout is the file's.
C18_Witness ==
    /\ JustLoaded
    /\ EnvTruthy(environ, "DB_HOST")
    /\ Tree.database.host = VStr(environ["DB_HOST"])
    /\ FileLayersTree.database.host # Tree.database.host
    /\ ~EnvTruthy(environ, "API_TIMEOUT")
    /\ Tree.api.timeout # TestConfig.api.timeout
    /\ Tree.api.timeout = FileLayersTree.api.timeout

(***************************************************************************)
(* C19  Environment-file loading fills gaps only and happens first.  In    *)
(* every run of the constructor, each variable the process environment     *)
(* holds keeps its text; when the environment-variable file exists and     *)
(* python-dotenv is available, each pair of the file whose name the        *)
(* environment lacks is added, and nothing else is; the loading is the     *)
(* first thing logged, the tag is that of the filled environment, the      *)
(* environment layer is probed under that tag, and the overrides are      *)
(* those of the filled environment.                                        *)
(***************************************************************************)
\* This step ran the constructor.
ConstructorRan ==
    \/ last'.op = "ConfigManager"
    \/ config_manager = <<>> /\ last'.op \in GetOps

EnvFileIsLoaded == env_file.exists /\ dotenv_available

\* The tree the constructor of this step built.
Built == IF last'.op = "ConfigManager" THEN verify_manager'[1] ELSE config_manager'[1]

C19_EnvFileFillsGapsFirst ==
    [][ConstructorRan
       => /\ \A k \in DOMAIN environ : k \in DOMAIN environ' /\ environ'[k] = environ[k]
          /\ EnvFileIsLoaded
             => /\ \A k \in DOMAIN env_file.pairs \ DOMAIN environ :
                     k \in DOMAIN environ' /\ environ'[k] = env_file.pairs[k]
                /\ DOMAIN environ' \subseteq DOMAIN environ \cup DOMAIN env_file.pairs
                /\ last'.log[1].event = "env file loaded"
          /\ ~EnvFileIsLoaded => environ' = environ
          /\ \A i \in 1..Len(last'.log) :
               last'.log[i].event \in {"loaded", "failed"}
               => last'.log[i].path.name
                    \in {"config", "config." \o GetEnv(environ', "TEST_ENV", "test")}
          /\ last'.exc = NoExc
             => /\ Built.environment = GetEnv(environ', "TEST_ENV", "test")
                /\ \A t \in OverrideTable :
                     EnvTruthy(environ', t.var)
                     => Built.config[t.section][t.key] = Coerced(t.kind, environ'[t.var])
      ]_vars

\* The file sets TEST_ENV and API_TIMEOUT, the environment held another
\* API_TIMEOUT: the tag is the file's, the timeout is the environment's.
C19_Witness ==
    /\ JustLoaded
    /\ env_file.exists /\ dotenv_available
    /\ "API_TIMEOUT" \in DOMAIN env_file.pairs
    /\ environ["API_TIMEOUT"] # env_file.pairs["API_TIMEOUT"]
    /\ environ["TEST_ENV"] = env_file.pairs["TEST_ENV"]
    /\ Tree.environment = "prod"
    /\ Tree.api.timeout = VInt(30)
    /\ EnvYaml("prod") \in Consulted

(***************************************************************************)
(* C20  Environment tag selection.  In every run of the constructor the    *)
(* tag is the text of TEST_ENV, taken from the process environment if it   *)
(* is there, else from the loaded environment-variable file, and "test"    *)
(* if neither sets it.  The manager's environment and the tree's           *)
(* environment field are the tag, and the files read besides the base      *)
(* candidates are config.<tag>.yaml, config.<tag>.yml or                   *)
(* config.<tag>.json, one of which is read when one exists.                *)
(***************************************************************************)
SelectedTag ==
    IF "TEST_ENV" \in DOMAIN environ
    THEN environ["TEST_ENV"]
    ELSE IF EnvFileIsLoaded /\ "TEST_ENV" \in DOMAIN env_file.pairs
    THEN env_file.pairs["TEST_ENV"]
    ELSE "test"

TagFiles ==
    {[dir |-> "config", name |-> "config." \o SelectedTag, suffix |-> x] :
        x \in {".yaml", ".yml", ".json"}}

BaseFiles ==
    {[dir |-> "config", name |-> "config", suffix |-> x] : x \in {".yaml", ".yml", ".json"}}

ReadInStep == {last'.log[i].path : i \in {j \in 1..Len(last'.log) :
                  last'.log[j].event \in {"loaded", "failed"}}}

C20_EnvironmentTagSelection ==
    [][ConstructorRan
       => /\ last'.exc = NoExc
             => /\ Built.environment = SelectedTag
                /\ Built.config.environment = SelectedTag
          /\ ReadInStep \subseteq BaseFiles \cup TagFiles
          /\ TagFiles \cap DOMAIN files # {} => TagFiles \cap ReadInStep # {}
      ]_vars

\* The file of the environment test exists and is not read: the tag is
\* prod and the layer is that of config.prod.json.
C20_Witness ==
    /\ JustLoaded
    /\ Tree.environment = "prod"
    /\ config_manager[1].environment = "prod"
    /\ EnvJson("test") \in DOMAIN files
    /\ EnvJson("test") \notin Consulted
    /\ EnvJson("prod") \in LoggedPaths("loaded")
    /\ Tree.api.timeout = VInt(50)

(***************************************************************************)
(* C21  The custom section merges as a key union.  After a load the keys   *)
(* of custom are those of the custom mapping of the merged base file and   *)
(* of the merged environment file together, each with the environment      *)
(* file's value if that file has the key and the base file's otherwise.    *)
(***************************************************************************)
CustomItems(data) ==
    IF data.top = "dict" /\ "custom" \in DOMAIN data.secs /\ data.secs["custom"].shape = "dict"
    THEN data.secs["custom"].items
    ELSE <<>>

CustomKeys(data) == {CustomItems(data)[i].k : i \in 1..Len(CustomItems(data))}

CustomValue(data, key) ==
    CustomItems(data)[CHOOSE i \in 1..Len(CustomItems(data)) :
                        /\ CustomItems(data)[i].k = key
                        /\ \A j \in 1..Len(CustomItems(data)) :
                             CustomItems(data)[j].k = key => j <= i].v

C21_CustomKeyUnion ==
    JustLoaded
    => /\ DOMAIN Tree.custom = CustomKeys(LayerData(BaseCandidates))
                                 \cup CustomKeys(LayerData(EnvCandidates(EnvTag)))
       /\ \A key \in DOMAIN Tree.custom :
            Tree.custom[key] =
              IF key \in CustomKeys(LayerData(EnvCandidates(EnvTag)))
              THEN CustomValue(LayerData(EnvCandidates(EnvTag)), key)
              ELSE CustomValue(LayerData(BaseCandidates), key)

(***************************************************************************)
(* C22  save_config serializes the six sections from the live tree.  As    *)
(* claimed: the document save_config wrote has the top-level keys          *)
(* database, api, browser, report, performance and custom and no other,    *)
(* each fixed section has every declared field once, with the value of     *)
(* the tree, and custom has the keys and values of the tree's custom.      *)
(***************************************************************************)
Saved == last.op = "save_config" /\ last.exc = NoExc

\* The value as the format of the written file holds it: JSON has arrays
\* for tuples and lists alike.
WrittenValue(v) == IF SavedPath.suffix = ".json" /\ v.t = "tuple" THEN [v EXCEPT !.t = "list"] ELSE v

\* Every value of the tree has a form the loader reads in the written
\* format: YAML written for a tuple is not read by yaml.safe_load.
Representable == SavedPath.suffix = ".json" \/ NoTuple(Tree)

SectionKeys(data, section) ==
    {data.secs[section].items[i].k : i \in 1..Len(data.secs[section].items)}

\* The written document has these fields of the fixed sections, each once
\* and with the tree's value, and the tree's custom mapping.
Serializes(fields) ==
    LET data == files[SavedPath].data
    IN /\ files[SavedPath].kind = "parsed"
       /\ data.top = "dict"
       /\ DOMAIN data.secs = {"database", "api", "browser", "report", "performance", "custom"}
       /\ \A section \in FixedSectionSet :
            /\ data.secs[section].shape = "dict"
            /\ SectionKeys(data, section) = fields[section]
            /\ Len(data.secs[section].items) = Cardinality(fields[section])
            /\ \A key \in fields[section] :
                 DocValue(data, section, key) = WrittenValue(Tree[section][key])
       /\ data.secs["custom"].shape = "dict"
       /\ SectionKeys(data, "custom") = DOMAIN Tree.custom
       /\ Len(data.secs["custom"].items) = Cardinality(DOMAIN Tree.custom)
       /\ \A key \in DOMAIN Tree.custom :
            DocValue(data, "custom", key) = WrittenValue(Tree.custom[key])

C22_SaveSerializesDeclaredFields ==
    (Saved /\ Representable)
    => Serializes([section \in FixedSectionSet |-> DeclaredFields(section)])

(***************************************************************************)
(* C22 as amended.  The same, with every declared field but                *)
(* database.password, which the document never has.                        *)
(***************************************************************************)
C22_SaveSerializesAllButPassword ==
    (Saved /\ Representable)
    => Serializes([section \in FixedSectionSet |->
                     {key \in DeclaredFields(section) : <<section, key>> \notin NotSerialized}])

\* A tree with a password, a changed timeout and custom keys was saved to
\* config.json.
C22_Witness ==
    /\ Saved
    /\ SavedPath = BaseJson
    /\ Tree.database.password = VStr("secret")
    /\ Tree.api.timeout = VInt(60)
    /\ DOMAIN Tree.custom # {}
    /\ DocValue(files[SavedPath].data, "api", "timeout") = VInt(60)

(***************************************************************************)
(* C23  save_config target and format.  With no path given the target is   *)
(* config.<environment>.yaml in the config directory.  A .yaml or .yml     *)
(* target is written as YAML when PyYAML is available and a .json target   *)
(* as JSON, at the target itself; in every other case, where there is no   *)
(* serializer for the target's suffix, JSON is written to the path with    *)
(* the suffix replaced by .json.  The call changes the file it writes and  *)
(* no other.                                                               *)
(***************************************************************************)
\* The target of the save_config call of this step.
Intended ==
    IF last'.target = [dir |-> "", name |-> "", suffix |-> ""]
    THEN [dir |-> "config", name |-> "config." \o config_manager[1].environment,
          suffix |-> ".yaml"]
    ELSE last'.target

HasSerializer(suffix) ==
    \/ suffix \in {".yaml", ".yml"} /\ yaml_available
    \/ suffix = ".json"

Written == last'.log[1].path

C23_SaveTargetAndFormat ==
    [][last'.op = "save_config"
       => /\ Written = IF HasSerializer(Intended.suffix)
                       THEN Intended
                       ELSE [Intended EXCEPT !.suffix = ".json"]
          /\ DOMAIN files' = DOMAIN files \cup {Written}
          /\ \A p \in DOMAIN files : p # Written => files'[p] = files[p]
          /\ files'[Written].kind = IF Written.suffix = ".json" \/ NoTuple(Tree)
                                    THEN "parsed"
                                    ELSE "unparseable"
          /\ \A key \in DOMAIN Tree.custom :
               (Tree.custom[key].t = "tuple" /\ Written.suffix = ".json")
               => DocValue(files'[Written].data, "custom", key).t = "list"
      ]_vars

\* save_config(config/config.yaml) without PyYAML wrote config/config.json
\* and there is no config/config.yaml.
C23_Witness ==
    /\ Saved
    /\ last.target = BaseYaml
    /\ ~yaml_available
    /\ SavedPath = BaseJson
    /\ BaseYaml \notin DOMAIN files
    /\ files[BaseJson].kind = "parsed"

(***************************************************************************)
(* C24  A skipped candidate file leaves the tree unchanged.  After a load  *)
(* the tree is the one the same load assembles when the files it reported  *)
(* as failed are not there: no section and no custom key has a value of a  *)
(* failed file.                                                            *)
(***************************************************************************)
\* The file system without the files the load reported as failed.
FilesThatDidNotFail ==
    [p \in DOMAIN files \ LoggedPaths("failed") |-> files[p]]

TreeWithoutFailedFiles ==
    ConfigManagerInit(FilesThatDidNotFail, environ, env_file, yaml_available,
                      dotenv_available).manager.config

C24_SkippedFileLeavesTreeUnchanged ==
    JustLoaded => Tree = TreeWithoutFailedFiles

(***************************************************************************)
(* C25  An empty variable is not set.  When a recognised variable is       *)
(* present with the empty text, the load ends as it does without the       *)
(* variable: it raises what it raises then (an empty API_TIMEOUT gives no  *)
(* error of int()), and the tree it constructs is the same, with the       *)
(* variable's field as the defaults and files give it.                     *)
(***************************************************************************)
EmptyVars == {t \in OverrideTable : t.var \in DOMAIN environ /\ environ[t.var] = ""}

Without(var) == [k \in DOMAIN environ \ {var} |-> environ[k]]

LoadWithout(var) ==
    ConfigManagerInit(files, Without(var), env_file, yaml_available, dotenv_available)

C25_EmptyVariableIsUnset ==
    Attempted
    => \A t \in EmptyVars :
         /\ last.exc = LoadWithout(t.var).exc
         /\ JustLoaded
            => /\ Tree = LoadWithout(t.var).manager.config
               /\ Tree[t.section][t.key] = FileLayersTree[t.section][t.key]

\* API_TIMEOUT is empty and a file sets api.timeout: the load succeeds and
\* the timeout is the file's.
C25_Witness ==
    /\ JustLoaded
    /\ "API_TIMEOUT" \in DOMAIN environ
    /\ environ["API_TIMEOUT"] = ""
    /\ Tree.api.timeout # TestConfig.api.timeout
    /\ Tree.api.timeout = FileLayersTree.api.timeout

(***************************************************************************)
(* C26  Read and persist operations have no effect on the tree.  The       *)
(* config property returns the tree and the typed accessors its sections,  *)
(* get_custom_config returns the value of the key or the default it was    *)
(* given, and these calls, save_config and the calls of get_config and     *)
(* get_config_manager that find the manager leave the environment name,    *)
(* every field of every section and custom as they are: once the manager   *)
(* is there, a step that changes its tree is an update_config.             *)
(***************************************************************************)
ReadOps ==
    {"config", "get_database_config", "get_api_config", "get_browser_config",
     "get_report_config", "get_performance_config", "get_custom_config"}

C26_ReadAndPersistLeaveTree ==
    [][config_manager # <<>>
       => /\ last'.op \in ReadOps \cup {"save_config", "get_config", "get_config_manager"}
             => config_manager' = config_manager
          /\ config_manager' # config_manager => last'.op = "update_config"
          /\ last'.op = "config" => last'.returned = Tree
          /\ last'.op = "get_database_config" => last'.returned = Tree.database
          /\ last'.op = "get_api_config" => last'.returned = Tree.api
          /\ last'.op = "get_browser_config" => last'.returned = Tree.browser
          /\ last'.op = "get_report_config" => last'.returned = Tree.report
          /\ last'.op = "get_performance_config" => last'.returned = Tree.performance
          /\ last'.op = "get_custom_config"
             => last'.returned = IF last'.key \in DOMAIN Tree.custom
                                 THEN Tree.custom[last'.key]
                                 ELSE last'.value
      ]_vars

\* get_custom_config("missing", 7) returned 7 after an update, and custom
\* has no key "missing".
C26_Witness ==
    /\ last.op = "get_custom_config"
    /\ last.key = "missing"
    /\ last.returned = VInt(7)
    /\ "missing" \notin DOMAIN Tree.custom
    /\ "anything" \in DOMAIN Tree.custom
    /\ calls > 0

(***************************************************************************)
(* C27  retry_on_failure.  The wrapped function is called at most          *)
(* max_retries + 1 times, and again only after a call that raised an       *)
(* exception of a listed class.  The wrapper returns exactly when a call   *)
(* did not raise, and then it returns that call's result; an exception of  *)
(* a class that is not listed is raised by the wrapper at once; when all   *)
(* max_retries + 1 calls raised listed exceptions the wrapper raises the   *)
(* last one if skip_on_final_failure is false and calls pytest.skip if it  *)
(* is true.                                                                *)
(***************************************************************************)
Listed(o) == o.kind = "raise" /\ \E class \in retry.exceptions : class \in Bases[o.type]

LastCall == retry.history[Len(retry.history)]

C27_RetryOnFailure ==
    retry.decorator = "retry_on_failure"
    => /\ Len(retry.history) <= retry.max_retries + 1
       /\ \A i \in 1..(Len(retry.history) - 1) : Listed(retry.history[i])
       /\ retry.pc = "loop"
          => /\ \A i \in 1..Len(retry.history) : Listed(retry.history[i])
             /\ Len(retry.history) <= retry.max_retries
       /\ retry.pc = "done"
          => /\ retry.result = LastCall
             /\ retry.outcome = "returned" <=> LastCall.kind # "raise"
             /\ (LastCall.kind = "raise" /\ ~Listed(LastCall)) => retry.outcome = "raised"
             /\ Listed(LastCall)
                => /\ Len(retry.history) = retry.max_retries + 1
                   /\ retry.outcome = IF retry.skip_on_final_failure
                                      THEN "skipped"
                                      ELSE "raised"

\* With max_retries = 2 the function raised ConnectionError three times
\* and the test is skipped.
C27_Witness ==
    /\ retry.decorator = "retry_on_failure"
    /\ retry.pc = "done"
    /\ retry.max_retries = 2
    /\ retry.exceptions = {"ConnectionError", "TimeoutError", "OSError"}
    /\ Len(retry.history) = 3
    /\ \A i \in 1..3 : retry.history[i] = Raises("ConnectionError")
    /\ retry.outcome = "skipped"

(***************************************************************************)
(* C28  retry_on_http_error.  The function is called again only after a    *)
(* call that returned a response with a status of retry_status_codes or    *)
(* raised a request exception, and max_retries + 1 times at most.  Any     *)
(* other result is returned and any other exception raised at once.  When  *)
(* all max_retries + 1 calls were ones to retry, the wrapper calls         *)
(* pytest.skip if skip_on_final_failure is true, and otherwise returns     *)
(* the last response or raises the last request exception.                 *)
(***************************************************************************)
ToRetry(o) ==
    \/ o.kind = "response" /\ o.status \in retry.retry_status_codes
    \/ o.kind = "raise" /\ "RequestException" \in Bases[o.type]

C28_RetryOnHttpError ==
    retry.decorator = "retry_on_http_error"
    => /\ Len(retry.history) <= retry.max_retries + 1
       /\ \A i \in 1..(Len(retry.history) - 1) : ToRetry(retry.history[i])
       /\ retry.pc = "loop"
          => /\ \A i \in 1..Len(retry.history) : ToRetry(retry.history[i])
             /\ Len(retry.history) <= retry.max_retries
       /\ retry.pc = "done"
          => /\ retry.result = LastCall
             /\ ~ToRetry(LastCall)
                => retry.outcome = IF LastCall.kind = "raise" THEN "raised" ELSE "returned"
             /\ ToRetry(LastCall)
                => /\ Len(retry.history) = retry.max_retries + 1
                   /\ retry.outcome =
                        IF retry.skip_on_final_failure
                        THEN "skipped"
                        ELSE IF LastCall.kind = "raise" THEN "raised" ELSE "returned"

\* With max_retries = 2 and skip_on_final_failure false the function
\* returned 503, raised a request exception and returned 503: the wrapper
\* returns the last response.
C28_Witness ==
    /\ retry.decorator = "retry_on_http_error"
    /\ retry.pc = "done"
    /\ retry.max_retries = 2
    /\ ~retry.skip_on_final_failure
    /\ retry.history = <<Response(503), Raises("RequestException"), Response(503)>>
    /\ retry.outcome = "returned"
    /\ retry.result = Response(503)

(***************************************************************************)
(* C29  Performance metrics describe one run.  The metrics a load_test     *)
(* call returned, and the metrics stress_test has put in its list for      *)
(* each stage, count the requests of that run: total_requests is           *)
(* concurrent_users x requests_per_user, successful and failed requests    *)
(* add up to it, and there is one response time for each request; the      *)
(* list of stress_test has one record of its own for each stage.           *)
(***************************************************************************)
DescribesRun(m, run) ==
    /\ m.total_requests = run.users * run.requests_per_user
    /\ m.successful_requests + m.failed_requests = m.total_requests
    /\ m.successful_requests = run.ok
    /\ m.response_times = m.total_requests

\* The runs of the stages of the stress_test call: the last ones made.
StageRun(i) == tester.runs[Len(tester.runs) - Len(tester.results) + i]

C29_MetricsDescribeOneRun ==
    /\ (tester.pc = "idle" /\ tester.results = <<>> /\ tester.returned # <<>>)
       => DescribesRun(tester.heap[tester.returned[1]], tester.runs[Len(tester.runs)])
    /\ \A i \in 1..Len(tester.results) :
         /\ DescribesRun(tester.heap[tester.results[i]], StageRun(i))
         /\ \A j \in 1..Len(tester.results) :
              i # j => tester.results[i] # tester.results[j]

(***************************************************************************)
(* C30  FileDownloader accounting.  A download_single_file call with a     *)
(* URL that is not blank adds one to exactly one of downloaded_count,      *)
(* skipped_count and failed_count: to skipped_count when the file was      *)
(* there, and then no request is made and True is returned; otherwise to   *)
(* downloaded_count when True is returned and to failed_count when False   *)
(* is returned, after max_retries requests at most.  So the three counts   *)
(* add up to the number of such calls, and get_statistics reports that     *)
(* number as the total.                                                    *)
(***************************************************************************)
\* This step is a download_single_file call with a URL that is not blank.
Downloads == downloader'.downloads = downloader.downloads + 1

Added(counter) == downloader'[counter] - downloader[counter]

C30_DownloaderAccounting ==
    [][/\ Downloads
          => /\ Added("downloaded_count") + Added("skipped_count") + Added("failed_count") = 1
             /\ \A counter \in {"downloaded_count", "skipped_count", "failed_count"} :
                  Added(counter) \in {0, 1}
             /\ Added("skipped_count") = 1
                <=> downloader'.last.filename \in downloader.existing
             /\ Added("skipped_count") = 1
                => downloader'.last.requests = 0 /\ downloader'.last.returned
             /\ Added("downloaded_count") = 1
                => /\ downloader'.last.returned
                   /\ downloader'.last.requests \in 1..downloader.max_retries
             /\ Added("failed_count") = 1 <=> ~downloader'.last.returned
             /\ downloader'.downloaded_count + downloader'.skipped_count
                  + downloader'.failed_count = downloader'.downloads
       /\ (downloader'.downloads = downloader.downloads
           /\ downloader'.statistics # downloader.statistics)
          => downloader'.statistics.total = downloader.downloads
      ]_vars

====
